---------------------------- MODULE Spec2Model ----------------------------
(***************************************************************************)
(* A model of the HazeRemoval image-processing library: the BaseImage      *)
(* pixel buffer, the sliding-window box filter, the guided filter, the     *)
(* depth estimator and the haze remover.                                   *)
(*                                                                         *)
(* Each component is a state machine of its own (SpecBox, SpecDepth, ...). *)
(* A component's state is one record-valued variable; while one component  *)
(* runs, the variables of the others keep the value Idle.                  *)
(***************************************************************************)
EXTENDS Integers, Sequences, FiniteSets, TLC

VARIABLES box, dep, hz, gf, im, vw, nm, ch, io

vars == <<box, dep, hz, gf, im, vw, nm, ch, io>>

Idle == [pc |-> "idle"]

-----------------------------------------------------------------------------
(***************************************************************************)
(* float.  A float is modelled by the exact rational <<n, d>> in lowest    *)
(* terms with d > 0, or by one of the three IEEE specials, which keep a    *)
(* zero denominator: NaN = <<0,0>>, +Inf = <<1,0>>, -Inf = <<-1,0>>.       *)
(* Rounding is not modelled, and the two zeros are not told apart (so the  *)
(* sign of an infinity that comes from a division by zero is the sign of   *)
(* the dividend).                                                          *)
(***************************************************************************)
Abs(n) == IF n < 0 THEN -n ELSE n

Sign(n) == IF n > 0 THEN 1 ELSE IF n < 0 THEN -1 ELSE 0

RECURSIVE GCD(_, _)
GCD(a, b) == IF b = 0 THEN a ELSE GCD(b, a % b)

Norm(n, d) ==
    IF d = 0 THEN <<Sign(n), 0>>
    ELSE LET g == GCD(Abs(n), Abs(d))
         IN  <<(Sign(d) * n) \div g, Abs(d) \div g>>

F(n) == <<n, 1>>

NaN == <<0, 0>>

PosInf == <<1, 0>>

NegInf == <<-1, 0>>

IsNaN(a) == a = NaN

IsFinite(a) == a[2] # 0

FNeg(a) == <<-a[1], a[2]>>

FAdd(a, b) ==
    IF IsFinite(a) /\ IsFinite(b)
    THEN LET g == GCD(a[2], b[2])
         IN  Norm(a[1] * (b[2] \div g) + b[1] * (a[2] \div g), (a[2] \div g) * b[2])
    ELSE IF IsNaN(a) \/ IsNaN(b) THEN NaN
    ELSE IF IsFinite(a) THEN b
    ELSE IF IsFinite(b) THEN a
    ELSE IF a = b THEN a ELSE NaN

FSub(a, b) == FAdd(a, FNeg(b))

FMul(a, b) ==
    IF IsFinite(a) /\ IsFinite(b)
    THEN LET g == GCD(Abs(a[1]), b[2])
             k == GCD(Abs(b[1]), a[2])
         IN  Norm((a[1] \div g) * (b[1] \div k), (a[2] \div k) * (b[2] \div g))
    ELSE Norm(a[1] * b[1], 0)

\* 1 / a: 1/0 = +Inf, 1/Inf = 0, 1/NaN = NaN
FRecip(a) ==
    IF a[1] = 0 THEN (IF a[2] = 0 THEN NaN ELSE PosInf)
    ELSE <<Sign(a[1]) * a[2], Abs(a[1])>>

FDiv(a, b) == FMul(a, FRecip(b))

\* a < b; false as soon as one side is NaN
FLt(a, b) ==
    IF IsNaN(a) \/ IsNaN(b) THEN FALSE
    ELSE IF IsFinite(a) /\ IsFinite(b)
    THEN LET g == GCD(a[2], b[2])
         IN  a[1] * (b[2] \div g) < b[1] * (a[2] \div g)
    ELSE IF IsFinite(a) THEN b = PosInf
    ELSE IF IsFinite(b) THEN a = NegInf
    ELSE a = NegInf /\ b = PosInf

FLe(a, b) == FLt(a, b) \/ (a = b /\ ~IsNaN(a))

\* std::min(a, b) == (b < a) ? b : a      std::max(a, b) == (a < b) ? b : a
FMin(a, b) == IF FLt(b, a) THEN b ELSE a

FMax(a, b) == IF FLt(a, b) THEN b ELSE a

Min(a, b) == IF b < a THEN b ELSE a

Max(a, b) == IF a < b THEN b ELSE a

\* util.h: clamp on integers (coordinates) and on floats
clamp(x, lo, hi) == Min(Max(x, lo), hi)

fclamp(x, lo, hi) == FMin(FMax(x, lo), hi)

RECURSIVE SeqSum(_, _)
SeqSum(s, k) == IF k = 0 THEN F(0) ELSE FAdd(SeqSum(s, k - 1), s[k])

-----------------------------------------------------------------------------
(***************************************************************************)
(* BaseImage<PixelT>: m_width, m_height and the row-major vector m_data.   *)
(* data is a sequence, so storage index k is data[k + 1].  A Coord is the  *)
(* pair <<x, y>>.                                                          *)
(***************************************************************************)
\* a std::vector holds its elements: the sequence is computed once
Stored(d) == SubSeq(d, 1, Len(d))

Image(w, h, d) == [width |-> w, height |-> h, data |-> Stored(d)]

Coords(w, h) == {<<x, y>> : x \in 0 .. w - 1, y \in 0 .. h - 1}

getIndexUnsafe(img, coord) == coord[2] * img.width + coord[1]

\* getIndex clamping to width and height, one past the last column and row
getIndexWide(img, coord) ==
    getIndexUnsafe(img, <<clamp(coord[1], 0, img.width),
                          clamp(coord[2], 0, img.height)>>)

getIndex(img, coord) ==
    getIndexUnsafe(img, <<clamp(coord[1], 0, img.width - 1),
                          clamp(coord[2], 0, img.height - 1)>>)

\* image[coord], the bounds-clamped read
At(img, coord) == img.data[getIndex(img, coord) + 1]

\* image[coord] = v, the bounds-clamped write
Put(img, coord, v) == [img EXCEPT !.data[getIndex(img, coord) + 1] = v]

\* every image of the given size over the given pixel values
ImagesOver(w, h, values) == {Image(w, h, d) : d \in [1 .. w * h -> values]}

\* the images of the given size whose pixels are bg, but for at most lit of
\* them, which take any of the values
SparseImages(w, h, bg, values, lit) ==
    {Image(w, h, [k \in 1 .. w * h |-> IF k \in DOMAIN f THEN f[k] ELSE bg]) :
        f \in UNION {[S -> values] :
                         S \in {T \in SUBSET (1 .. w * h) : Cardinality(T) <= lit}}}

-----------------------------------------------------------------------------
(***************************************************************************)
(* filters.tpp: boxFilter and boxFilterPass.                               *)
(*                                                                         *)
(* box.image is the argument of boxFilter, box.r its second argument,      *)
(* box.out the working copy both passes filter in place.  box.pc tells the *)
(* pass that is running; box.i, box.o, box.accum, box.weight and           *)
(* box.rowOrColumn are the locals of boxFilterPass.                        *)
(***************************************************************************)
BoxMaxW == 3

BoxMaxH == 3

BoxMaxR == 3

BoxMaxLit == 1

\* the inputs of the box filter: images of zeros with at most BoxMaxLit ones
BoxImages ==
    UNION {SparseImages(w, h, F(0), {F(1)}, BoxMaxLit) :
           w \in 1 .. BoxMaxW, h \in 1 .. BoxMaxH}

Zeros(n) == Stored([k \in 1 .. n |-> F(0)])

\* boxFilter hands its argument r to both passes as their windowSize
windowSize == box.r

halfWindowSize == windowSize \div 2

vertical == box.pc = "vpass"

outerSize == IF vertical THEN box.out.width ELSE box.out.height

innerSize == IF vertical THEN box.out.height ELSE box.out.width

passCoord(vert, i, o) == IF vert THEN <<i, o>> ELSE <<o, i>>

\* passBody with the window filled one step too long (o <= windowSize)
passBodyLate(image, vert, ws, inner, i, o, accum, weight) ==
    LET w1 == IF o <= ws THEN weight + 1 ELSE weight
        a1 == IF o <= ws THEN accum
              ELSE FSub(accum, At(image, passCoord(vert, i, o - ws)))
        a2 == IF o < inner THEN FAdd(a1, At(image, passCoord(vert, i, o))) ELSE a1
        w2 == IF o < inner THEN w1 ELSE w1 - 1
    IN  [accum |-> a2, weight |-> w2]

\* passBody that never removes the value the window left behind
passBodyNoLeave(image, vert, ws, inner, i, o, accum, weight) ==
    LET w1 == IF o < ws THEN weight + 1 ELSE weight
        a2 == IF o < inner THEN FAdd(accum, At(image, passCoord(vert, i, o))) ELSE accum
        w2 == IF o < inner THEN w1 ELSE w1 - 1
    IN  [accum |-> a2, weight |-> w2]

\* passBody with a weight that is not reduced when the window passes the end
\* of the row / column
passBodyNoShrink(image, vert, ws, inner, i, o, accum, weight) ==
    LET w1 == IF o < ws THEN weight + 1 ELSE weight
        a1 == IF o < ws THEN accum
              ELSE FSub(accum, At(image, passCoord(vert, i, o - ws)))
        a2 == IF o < inner THEN FAdd(a1, At(image, passCoord(vert, i, o))) ELSE a1
    IN  [accum |-> a2, weight |-> w1]

\* one iteration of the sliding window: the new accum and weight
passBody(image, vert, ws, inner, i, o, accum, weight) ==
    LET w1 == IF o < ws THEN weight + 1 ELSE weight
        a1 == IF o < ws THEN accum
              ELSE FSub(accum, At(image, passCoord(vert, i, o - ws)))
        a2 == IF o < inner THEN FAdd(a1, At(image, passCoord(vert, i, o))) ELSE a1
        w2 == IF o < inner THEN w1 ELSE w1 - 1
    IN  [accum |-> a2, weight |-> w2]

RECURSIVE copyBack(_, _, _, _, _)
copyBack(image, vert, i, row, n) ==
    IF n = 0 THEN image
    ELSE Put(copyBack(image, vert, i, row, n - 1), passCoord(vert, i, n - 1), row[n])

InitBox ==
    /\ \E img \in BoxImages, r \in 0 .. BoxMaxR :
          box = [pc |-> "hpass", image |-> img, r |-> r, out |-> img,
                 i |-> 0, o |-> 0, accum |-> F(0), weight |-> 0,
                 rowOrColumn |-> Zeros(img.width)]
    /\ dep = Idle /\ hz = Idle /\ gf = Idle /\ im = Idle
    /\ vw = Idle /\ nm = Idle /\ ch = Idle /\ io = Idle

\* the body of the loop over o
BoxPassStep ==
    /\ box.pc \in {"hpass", "vpass"}
    /\ box.i < outerSize
    /\ box.o < innerSize + halfWindowSize
    /\ LET b == passBody(box.out, vertical, windowSize, innerSize,
                         box.i, box.o, box.accum, box.weight)
       IN  box' = [box EXCEPT
                     !.accum = b.accum,
                     !.weight = b.weight,
                     !.rowOrColumn =
                         IF box.o >= halfWindowSize
                         THEN [@ EXCEPT ![box.o - halfWindowSize + 1] =
                                             FDiv(b.accum, F(b.weight))]
                         ELSE @,
                     !.o = @ + 1]
    /\ UNCHANGED <<dep, hz, gf, im, vw, nm, ch, io>>

\* the row / column is copied to the image; the next one starts from accum 0
BoxPassCopy ==
    /\ box.pc \in {"hpass", "vpass"}
    /\ box.i < outerSize
    /\ box.o = innerSize + halfWindowSize
    /\ box' = [box EXCEPT
                 !.out = copyBack(@, vertical, box.i, box.rowOrColumn, innerSize),
                 !.i = @ + 1, !.o = 0, !.accum = F(0), !.weight = 0]
    /\ UNCHANGED <<dep, hz, gf, im, vw, nm, ch, io>>

\* the horizontal pass returns and the vertical pass begins
BoxVerticalPass ==
    /\ box.pc = "hpass"
    /\ box.i = outerSize
    /\ box' = [box EXCEPT !.pc = "vpass", !.i = 0, !.o = 0,
                          !.rowOrColumn = Zeros(box.out.height)]
    /\ UNCHANGED <<dep, hz, gf, im, vw, nm, ch, io>>

\* the vertical pass returns, and boxFilter returns out
BoxReturn ==
    /\ box.pc = "vpass"
    /\ box.i = outerSize
    /\ box' = [box EXCEPT !.pc = "done"]
    /\ UNCHANGED <<dep, hz, gf, im, vw, nm, ch, io>>

NextBox == BoxPassStep \/ BoxPassCopy \/ BoxVerticalPass \/ BoxReturn

SpecBox == InitBox /\ [][NextBox]_vars

-----------------------------------------------------------------------------
(***************************************************************************)
(* pixel.h: Pixel, an RGB triple <<r, g, b>> of floats.                    *)
(***************************************************************************)
getLuminance(p) ==
    FAdd(FAdd(FMul(<<1063, 5000>>, p[1]), FMul(<<447, 625>>, p[2])),
         FMul(<<361, 5000>>, p[3]))

getSaturation(p) ==
    LET maxChannel == FMax(FMax(p[1], p[2]), p[3])
        minChannel == FMin(FMin(p[1], p[2]), p[3])
        value == getLuminance(p)
    IN  IF value = F(0) THEN F(0) ELSE FDiv(FSub(maxChannel, minChannel), value)

Grey(v) == <<v, v, v>>

(***************************************************************************)
(* image_view.h: ImageView, the record [offset, width, height].  The       *)
(* constructor moves a negative offset to 0 and keeps the size.            *)
(***************************************************************************)
ImageView(offset, w, h) ==
    [offset |-> <<Max(0, offset[1]), Max(0, offset[2])>>, width |-> w, height |-> h]

subView(view, offset, w, h) ==
    ImageView(<<view.offset[1] + offset[1], view.offset[2] + offset[2]>>, w, h)

centredSubView(view, centre, w, h) ==
    subView(view, <<centre[1] - w \div 2, centre[2] - h \div 2>>, w, h)

\* BaseImage::getView(offset, width, height)
getViewOf(img, offset, w, h) ==
    ImageView(<<Max(0, offset[1]), Max(0, offset[2])>>,
              clamp(0, img.width - offset[1], w),
              clamp(0, img.height - offset[2], h))

\* BaseImage::getView()
getView(img) == getViewOf(img, <<0, 0>>, img.width, img.height)

\* the coordinates a range-for over the view yields, from begin() to end():
\* row-major, x fastest (for the views of width >= 1, and the empty 0 x 0 view)
ViewSeq(view) ==
    IF view.width = 0 THEN <<>>
    ELSE [k \in 1 .. view.width * view.height |->
             <<view.offset[1] + ((k - 1) % view.width),
               view.offset[2] + ((k - 1) \div view.width)>>]

-----------------------------------------------------------------------------
(***************************************************************************)
(* filters.h: normalise.                                                   *)
(*                                                                         *)
(* min starts at numeric_limits<float>::max() and max at                   *)
(* numeric_limits<float>::min(), the smallest positive normal float.  The  *)
(* model's floats are rationals with small terms, so FLT_MAX is stood for  *)
(* by FltMaxNum, larger than every finite pixel of the model, and FLT_MIN  *)
(* by 1 / FltMinDen, smaller than every positive pixel of the model.       *)
(***************************************************************************)
FltMaxNum == 1000

FltMinDen == 1000

FltMax == <<FltMaxNum, 1>>

FltMin == <<1, FltMinDen>>

RECURSIVE foldMin(_, _, _)
foldMin(data, k, init) ==
    IF k = 0 THEN init ELSE FMin(foldMin(data, k - 1, init), data[k])

RECURSIVE foldMax(_, _, _)
foldMax(data, k, init) ==
    IF k = 0 THEN init ELSE FMax(foldMax(data, k - 1, init), data[k])

\* normalise dividing by max instead of (max - min)
normaliseByMax(img) ==
    LET n == Len(img.data)
        min == foldMin(img.data, n, FltMax)
        max == foldMax(img.data, n, FltMin)
    IN  [img EXCEPT !.data = [k \in 1 .. n |-> FDiv(FSub(img.data[k], min), max)]]

normalise(img) ==
    LET n == Len(img.data)
        min == foldMin(img.data, n, FltMax)
        max == foldMax(img.data, n, FltMin)
    IN  [img EXCEPT !.data =
             [k \in 1 .. n |-> FDiv(FSub(img.data[k], min), FSub(max, min))]]

-----------------------------------------------------------------------------
(***************************************************************************)
(* haze_removal.cpp: getDepthFromHazyImage.                                *)
(*                                                                         *)
(* dep.in and dep.kernelSize are the arguments, dep.tmp and dep.result the *)
(* locals of those names.  dep.pc is "start" at the call, "estimated"      *)
(* after the first loop (the colour attenuation prior), "filtered" after   *)
(* the min-filter and "done" after normalise, when result is returned.     *)
(***************************************************************************)
DepMaxW == 3

DepMaxH == 2

DepMaxK == 3

DepMaxLit == 2

\* the pixels of the inputs: black, mid grey and white
DepPalette == {Grey(F(0)), Grey(<<1, 2>>), Grey(F(1))}

\* the 3x3 image whose pixels are all R = G = B = 0.5
UniformGrey3x3 == Image(3, 3, [k \in 1 .. 9 |-> Grey(<<1, 2>>)])

\* the inputs: mid grey images with at most DepMaxLit pixels of the palette,
\* and the uniform 3x3 image
DepImages ==
    UNION {SparseImages(w, h, Grey(<<1, 2>>), DepPalette, DepMaxLit) :
           w \in 1 .. DepMaxW, h \in 1 .. DepMaxH}
    \cup {UniformGrey3x3}

theta == <<(<<121779, 1000000>>), (<<95971, 100000>>), (<<-156049, 200000>>)>>

\* the depth of one pixel by the colour attenuation prior, clamped to [0, 1]
pixelDepth(p) ==
    fclamp(FAdd(FAdd(theta[1], FMul(getLuminance(p), theta[2])),
                FMul(getSaturation(p), theta[3])),
           F(0), F(1))

\* pixelDepth, evaluated once for each pixel value of the inputs
paletteDepth == [p \in DepPalette |-> pixelDepth(p)]

\* result[coords[k]] = vals[k] for the first n coordinates of the sequence
RECURSIVE putAll(_, _, _, _)
putAll(img, coords, vals, n) ==
    IF n = 0 THEN img
    ELSE Put(putAll(img, coords, vals, n - 1), coords[n], vals[n])

\* min = 1.0f; for each subCoord: min = std::min(min, tmp[subCoord])
RECURSIVE windowMin(_, _, _)
windowMin(tmp, coords, n) ==
    IF n = 0 THEN F(1) ELSE FMin(windowMin(tmp, coords, n - 1), At(tmp, coords[n]))

\* the square min-filter of tmp, written into result
minFilter(result, tmp, kernelSize) ==
    LET view == getView(tmp)
        coords == ViewSeq(view)
        subCoords(coord) == ViewSeq(centredSubView(view, coord, kernelSize, kernelSize))
        mins == [k \in 1 .. Len(coords) |->
                    windowMin(tmp, subCoords(coords[k]), Len(subCoords(coords[k])))]
    IN  putAll(result, coords, mins, Len(coords))

InitDepth ==
    /\ \E img \in DepImages, k \in 0 .. DepMaxK :
          dep = [pc |-> "start", in |-> img, kernelSize |-> k,
                 result |-> Image(img.width, img.height, Zeros(img.width * img.height)),
                 tmp |-> Image(0, 0, <<>>)]
    /\ box = Idle /\ hz = Idle /\ gf = Idle /\ im = Idle
    /\ vw = Idle /\ nm = Idle /\ ch = Idle /\ io = Idle

DepthEstimate ==
    /\ dep.pc = "start"
    /\ LET coords == ViewSeq(getView(dep.in))
           depths == [k \in 1 .. Len(coords) |-> paletteDepth[At(dep.in, coords[k])]]
           est == putAll(dep.result, coords, depths, Len(coords))
       IN  dep' = [dep EXCEPT !.pc = "estimated", !.result = est, !.tmp = est]
    /\ UNCHANGED <<box, hz, gf, im, vw, nm, ch, io>>

DepthMinFilter ==
    /\ dep.pc = "estimated"
    /\ dep' = [dep EXCEPT !.pc = "filtered",
                          !.result = minFilter(dep.result, dep.tmp, dep.kernelSize)]
    /\ UNCHANGED <<box, hz, gf, im, vw, nm, ch, io>>

DepthNormalise ==
    /\ dep.pc = "filtered"
    /\ dep' = [dep EXCEPT !.pc = "done", !.result = normalise(dep.result)]
    /\ UNCHANGED <<box, hz, gf, im, vw, nm, ch, io>>

NextDepth == DepthEstimate \/ DepthMinFilter \/ DepthNormalise

SpecDepth == InitDepth /\ [][NextDepth]_vars

-----------------------------------------------------------------------------
(***************************************************************************)
(* pixel.h: the arithmetic operators of Pixel.                             *)
(***************************************************************************)
PAdd(l, r) == <<FAdd(l[1], r[1]), FAdd(l[2], r[2]), FAdd(l[3], r[3])>>

PSub(l, r) == <<FSub(l[1], r[1]), FSub(l[2], r[2]), FSub(l[3], r[3])>>

PDiv(p, d) == <<FDiv(p[1], d), FDiv(p[2], d), FDiv(p[3], d)>>

-----------------------------------------------------------------------------
(***************************************************************************)
(* haze_removal.cpp: removeHaze.                                           *)
(*                                                                         *)
(* hz.in, hz.depth and hz.beta are the arguments.  hz.coords is the part   *)
(* of the vector coords that the loop over i < nHighest reads, as          *)
(* std::nth_element left it; hz.A is the background light; hz.t holds the  *)
(* transmission t of every iteration of the last loop and hz.out is the    *)
(* image returned.                                                         *)
(***************************************************************************)
HzMaxW == 2

HzMaxH == 2

\* size_t nHighest = depth.data().size() / 1000u
TopFraction == 1000

Black == <<F(0), F(0), F(0)>>

White == <<F(1), F(1), F(1)>>

Red == <<F(1), F(0), F(0)>>

Azure == <<F(0), (<<1, 2>>), F(1)>>

\* the hazy inputs: black images with at most one pixel of another colour
HzInputs(w, h) == SparseImages(w, h, Black, {White, Red, Azure}, 1)

\* the depth maps: 1 everywhere but for at most one pixel; NaN and +Inf are
\* what a degenerate normalise or guided filter hands over
HzDepths(w, h) == SparseImages(w, h, F(1), {F(0), <<1, 2>>, NaN, PosInf}, 1)

\* images and depth maps of n pixels, for n = TopFraction, the smallest for
\* which nHighest is not 0, and n = 2 * TopFraction, where nHighest is 2;
\* the pixels that differ from the rest are the first, the second and the
\* last, and the depth has one, two or three greatest pixels
HzLargeSizes == {TopFraction, 2 * TopFraction}

\* a colour outside [0, 1], of luminance -0.2126
Negative == <<F(-1), F(0), F(0)>>

HzLargeInputs(n) ==
    {Image(n, 1, [k \in 1 .. n |-> IF k = 1 THEN a ELSE IF k = n THEN b ELSE Black]) :
        a \in {Black, Red, Negative}, b \in {Black, White, Azure}}

HzLargeDepths(n) ==
    {Image(n, 1, [k \in 1 .. n |-> IF k = 1 THEN a
                                   ELSE IF k = 2 THEN <<1, 2>>
                                   ELSE IF k = n THEN b ELSE F(0)]) :
        a \in {<<1, 2>>, F(1)}, b \in {<<1, 2>>, F(1)}}

\* a depth map of n pixels whose first pixel is NaN and whose last is the
\* greatest of the others
HzNaNDepth(n) ==
    Image(n, 1, [k \in 1 .. n |-> IF k = 1 THEN NaN ELSE IF k = n THEN F(1) ELSE F(0)])

HzBetas == {F(-1), F(0), F(1), F(3)}

\* std::exp, at the arguments -beta * d of the model, to six decimals
fexp(x) ==
    CASE x = NaN -> NaN
      [] x = PosInf -> PosInf
      [] x = NegInf -> F(0)
      [] x = F(0) -> F(1)
      [] x = <<-1, 2>> -> <<606531, 1000000>>
      [] x = F(-1) -> <<367879, 1000000>>
      [] x = <<-3, 2>> -> <<223130, 1000000>>
      [] x = F(-3) -> <<49787, 1000000>>
      [] x = <<1, 2>> -> <<1648721, 1000000>>
      [] x = F(1) -> <<2718282, 1000000>>

\* the transmission without the upper clamp
transmissionUnclamped(beta, d) ==
    FMax(<<1, 10>>, fexp(FMul(FNeg(beta), d)))

\* float t = std::max(0.1f, std::min(0.9f, std::exp(-beta * d)))
transmission(beta, d) ==
    FMax(<<1, 10>>, FMin(<<9, 10>>, fexp(FMul(FNeg(beta), d))))

nHighest == Len(hz.depth.data) \div TopFraction

\* S and one more coordinate, of the greatest depth outside S
withGreatest(depth, S) ==
    LET rest == Coords(depth.width, depth.height) \ S
        vals == {At(depth, e) : e \in rest}
        greatest == CHOOSE v \in vals : \A u \in vals : FLe(u, v)
    IN  {S \cup {c} : c \in {d \in rest : At(depth, d) = greatest}}

\* the sets of n coordinates that std::nth_element may leave in front of
\* position n under the comparator depth[a] > depth[b]
RECURSIVE TopSets(_, _)
TopSets(depth, n) ==
    IF n = 0 THEN {{}}
    ELSE UNION {withGreatest(depth, S) : S \in TopSets(depth, n - 1)}

\* a comparison with NaN is always false: the comparator is then no strict
\* weak ordering and the order nth_element leaves is unspecified
RECURSIVE AnySets(_, _)
AnySets(depth, n) ==
    IF n = 0 THEN {{}}
    ELSE UNION {{S \cup {c} : c \in Coords(depth.width, depth.height) \ S} :
                   S \in AnySets(depth, n - 1)}

Orderings(S) ==
    {f \in [1 .. Cardinality(S) -> S] : \A i, j \in DOMAIN f : f[i] = f[j] => i = j}

\* the loop over the candidates keeping the last of them
brightestLast(in, coords, n) ==
    IF n = 0 THEN Black ELSE At(in, coords[n])

\* A = (inPixel.getLuminance() > A.getLuminance()) ? inPixel : A, for the
\* first n coordinates
RECURSIVE brightest(_, _, _)
brightest(in, coords, n) ==
    IF n = 0 THEN Black
    ELSE LET A == brightest(in, coords, n - 1)
             inPixel == At(in, coords[n])
         IN  IF FLt(getLuminance(A), getLuminance(inPixel)) THEN inPixel ELSE A

\* removeHaze(in, depth, beta) at its entry
HazeStart(in, depth, beta) ==
    [pc |-> "start", in |-> in, depth |-> depth, beta |-> beta,
     coords |-> <<>>, A |-> Black, t |-> <<>>,
     out |-> Image(in.width, in.height, [k \in 1 .. in.width * in.height |-> Black])]

InitHaze ==
    /\ \/ \E w \in 1 .. HzMaxW, h \in 1 .. HzMaxH, beta \in HzBetas :
             \E in \in HzInputs(w, h), depth \in HzDepths(w, h) :
                hz = HazeStart(in, depth, beta)
       \/ \E in \in HzLargeInputs(TopFraction), depth \in HzLargeDepths(TopFraction) :
             hz = HazeStart(in, depth, F(1))
    /\ box = Idle /\ dep = Idle /\ gf = Idle /\ im = Idle
    /\ vw = Idle /\ nm = Idle /\ ch = Idle /\ io = Idle

\* coords is filled from the view and partially sorted
HazeSelect ==
    /\ hz.pc = "start"
    /\ \E S \in IF NaN \in {hz.depth.data[k] : k \in 1 .. Len(hz.depth.data)}
                THEN AnySets(hz.depth, nHighest)
                ELSE TopSets(hz.depth, nHighest) :
          \E order \in Orderings(S) :
             hz' = [hz EXCEPT !.pc = "selected", !.coords = order]
    /\ UNCHANGED <<box, dep, gf, im, vw, nm, ch, io>>

\* the loop over the nHighest first coords
HazeAirlight ==
    /\ hz.pc = "selected"
    /\ hz' = [hz EXCEPT !.pc = "airlight",
                        !.A = brightest(hz.in, hz.coords, nHighest)]
    /\ UNCHANGED <<box, dep, gf, im, vw, nm, ch, io>>

\* the loop that solves the image formation model
HazeRecover ==
    /\ hz.pc = "airlight"
    /\ LET n == Len(hz.out.data)
           t == [k \in 1 .. n |-> transmission(hz.beta, hz.depth.data[k])]
       IN  hz' = [hz EXCEPT
                    !.pc = "done",
                    !.t = t,
                    !.out.data = [k \in 1 .. n |->
                                     PAdd(hz.A, PDiv(PSub(hz.in.data[k], hz.A), t[k]))]]
    /\ UNCHANGED <<box, dep, gf, im, vw, nm, ch, io>>

NextHaze == HazeSelect \/ HazeAirlight \/ HazeRecover

SpecHaze == InitHaze /\ [][NextHaze]_vars

(***************************************************************************)
(* removeHaze up to the choice of the background light A, on images of     *)
(* TopFraction pixels and more.                                            *)
(***************************************************************************)
InitAirlight ==
    /\ \E n \in HzLargeSizes :
          \E in \in HzLargeInputs(n),
             depth \in HzLargeDepths(n)
                          \cup (IF n = TopFraction THEN {HzNaNDepth(n)} ELSE {}) :
             hz = HazeStart(in, depth, F(1))
    /\ box = Idle /\ dep = Idle /\ gf = Idle /\ im = Idle
    /\ vw = Idle /\ nm = Idle /\ ch = Idle /\ io = Idle

NextAirlight == HazeSelect \/ HazeAirlight

SpecAirlight == InitAirlight /\ [][NextAirlight]_vars

-----------------------------------------------------------------------------
(***************************************************************************)
(* image.h: the arithmetic operators on images, for the images whose       *)
(* data() holds width * height elements.                                   *)
(*                                                                         *)
(* An operand is evaluated once, as C++ does with an argument: the         *)
(* operators bind it to a variable ranging over the set of that one value. *)
(***************************************************************************)
The(S) == CHOOSE x \in S : TRUE

\* detail::add, sub, mul, div on floats
apply(op, a, b) ==
    CASE op = "add" -> FAdd(a, b)
      [] op = "sub" -> FSub(a, b)
      [] op = "mul" -> FMul(a, b)
      [] op = "div" -> FDiv(a, b)

\* checkSizes throwing only when both dimensions differ
sizesDifferBoth(l, r) == l.width # r.width /\ l.height # r.height

\* checkSizes throws
sizesDiffer(l, r) == l.width # r.width \/ l.height # r.height

\* detail::binaryOp(l, r, op), past checkSizes
binaryOp(l, r, op) ==
    The({Image(a.width, a.height,
               [k \in 1 .. a.width * a.height |-> apply(op, a.data[k], b.data[k])]) :
            a \in {l}, b \in {r}})

\* detail::binaryOp(l, v, op)
scalarOp(l, v, op) ==
    The({Image(a.width, a.height,
               [k \in 1 .. Len(a.data) |-> apply(op, a.data[k], v)]) : a \in {l}})

ImgAdd(l, r) == binaryOp(l, r, "add")

ImgSub(l, r) == binaryOp(l, r, "sub")

ImgMul(l, r) == binaryOp(l, r, "mul")

ImgDiv(l, r) == binaryOp(l, r, "div")

\* image.cpp: splitChannels
splitChannels(image) ==
    The({[i \in 1 .. 3 |->
             Image(img.width, img.height,
                   [k \in 1 .. img.width * img.height |->
                       At(img, ViewSeq(getView(img))[k])[i]])] : img \in {image}})

\* joinChannels writing the channels in the order b, g, r
joinChannelsBgr(r, g, b) ==
    Image(r.width, r.height,
          [i \in 1 .. r.width * r.height |-> <<b.data[i], g.data[i], r.data[i]>>])

\* out(r.width(), r.height()) with out.data()[i] set from the three channels
joinChannels(r, g, b) ==
    Image(r.width, r.height,
          [i \in 1 .. r.width * r.height |-> <<r.data[i], g.data[i], b.data[i]>>])

-----------------------------------------------------------------------------
(***************************************************************************)
(* filters.tpp: boxFilterPass and boxFilter as functions of the image,     *)
(* built from the same loop body as the step-wise machine above.           *)
(***************************************************************************)
\* one iteration of the loop over o, from accum, weight and rowOrColumn in s
lineStep(image, vert, ws, inner, i, o, s) ==
    The({[accum |-> b.accum, weight |-> b.weight,
          row |-> IF o >= ws \div 2
                  THEN [s.row EXCEPT ![o - ws \div 2 + 1] = FDiv(b.accum, F(b.weight))]
                  ELSE s.row] :
            b \in {passBody(image, vert, ws, inner, i, o, s.accum, s.weight)}})

\* accum, weight and rowOrColumn after n iterations of the loop over o
RECURSIVE passLine(_, _, _, _, _, _, _)
passLine(image, vert, ws, inner, i, row, n) ==
    IF n = 0 THEN [accum |-> F(0), weight |-> 0, row |-> row]
    ELSE The({lineStep(image, vert, ws, inner, i, n - 1, s) :
                 s \in {passLine(image, vert, ws, inner, i, row, n - 1)}})

\* one iteration of the loop over i, from the image and rowOrColumn in s
linesStep(vert, ws, inner, i, s) ==
    The({[image |-> copyBack(s.image, vert, i, line.row, inner), row |-> line.row] :
            line \in {passLine(s.image, vert, ws, inner, i, s.row, inner + ws \div 2)}})

\* the image and rowOrColumn after n iterations of the loop over i
RECURSIVE passLines(_, _, _, _, _)
passLines(image, vert, ws, inner, n) ==
    IF n = 0 THEN [image |-> image, row |-> Zeros(inner)]
    ELSE The({linesStep(vert, ws, inner, n - 1, s) :
                 s \in {passLines(image, vert, ws, inner, n - 1)}})

boxFilterPass(image, vert, ws) ==
    The({passLines(img, vert, ws,
                   IF vert THEN img.height ELSE img.width,
                   IF vert THEN img.width ELSE img.height).image : img \in {image}})

boxFilter(image, r) == boxFilterPass(boxFilterPass(image, FALSE, r), TRUE, r)

-----------------------------------------------------------------------------
(***************************************************************************)
(* guided_filter.cpp: GuidedFilterValues, guidedFilterChannel and          *)
(* guidedFilter for a greyscale input.                                     *)
(*                                                                         *)
(* gf.input, gf.guide, gf.r and gf.eps are the arguments; gf.radius, gf.I, *)
(* gf.mean_I, gf.var_I and gf.inv are the members of GuidedFilterValues,   *)
(* gf.covDet the local of its constructor; gf.mean_p, gf.mean_Ip,          *)
(* gf.cov_Ip, gf.a and gf.b are the locals of guidedFilterChannel and      *)
(* gf.out is the image returned.  gf.pc is the position in the two         *)
(* functions, "failed" when an ImageError left them.                       *)
(***************************************************************************)
GfMaxW == 2

GfMaxH == 2

GfMaxR == 1

Green == <<F(0), F(1), F(0)>>

Blue == <<F(0), F(0), F(1)>>

\* black, red, green and blue in turn
Primaries(w, h) ==
    Image(w, h, [k \in 1 .. w * h |-> <<Black, Red, Green, Blue>>[((k - 1) % 4) + 1]])

\* an image of bg with the first or the last pixel replaced by one of values
CornerImages(w, h, bg, values) ==
    {Image(w, h, [k \in 1 .. w * h |-> IF k = at THEN v ELSE bg]) :
        at \in {1, w * h}, v \in values \cup {bg}}

\* the guides: one colour everywhere, one pixel that differs, or primaries
GfGuides(w, h) ==
    CornerImages(w, h, Black, {Red, White})
        \cup {Image(w, h, [k \in 1 .. w * h |-> White]), Primaries(w, h)}

GfInputs(w, h) == CornerImages(w, h, F(0), {F(1)})

GfEps == {F(0), F(1)}

NoImage == Image(0, 0, <<>>)

NoImages == [c \in {"r", "g", "b"} |-> NoImage]

NoMatrix == [c \in {"rr", "rg", "rb", "gg", "gb", "bb"} |-> NoImage]

InitGuided ==
    /\ \E w \in 1 .. GfMaxW, h \in 1 .. GfMaxH, r \in 0 .. GfMaxR, eps \in GfEps :
          \E guide \in GfGuides(w, h), iw \in {1, w}, ih \in {1, h} :
          \E input \in GfInputs(iw, ih) :
             gf = [pc |-> "start", input |-> input, guide |-> guide,
                   r |-> r, eps |-> eps,
                   radius |-> 0, I |-> <<NoImage, NoImage, NoImage>>,
                   mean_I |-> NoImages, var_I |-> NoMatrix, inv |-> NoMatrix,
                   covDet |-> NoImage,
                   mean_p |-> NoImage, mean_Ip |-> NoImages, cov_Ip |-> NoImages,
                   a |-> NoImages, b |-> NoImage, out |-> NoImage]
    /\ box = Idle /\ dep = Idle /\ hz = Idle /\ im = Idle
    /\ vw = Idle /\ nm = Idle /\ ch = Idle /\ io = Idle

\* radius(r * 2 + 1), I(splitChannels(guide)), mean_I_r, mean_I_g, mean_I_b
GuidedMeans ==
    /\ gf.pc = "start"
    /\ \E radius \in {gf.r * 2 + 1}, I \in {splitChannels(gf.guide)} :
          gf' = [gf EXCEPT !.pc = "means", !.radius = radius, !.I = I,
                           !.mean_I = [r |-> boxFilter(I[1], radius),
                                       g |-> boxFilter(I[2], radius),
                                       b |-> boxFilter(I[3], radius)]]
    /\ UNCHANGED <<box, dep, hz, im, vw, nm, ch, io>>

\* boxFilter(a * b, radius) - mean_a * mean_b
covariance(a, b, mean_a, mean_b) ==
    ImgSub(boxFilter(ImgMul(a, b), gf.radius), ImgMul(mean_a, mean_b))

\* var_I_rr ... var_I_bb, eps added on the diagonal
GuidedVariances ==
    /\ gf.pc = "means"
    /\ gf' = [gf EXCEPT
                !.pc = "variances",
                !.var_I =
                    [rr |-> scalarOp(covariance(gf.I[1], gf.I[1], gf.mean_I.r, gf.mean_I.r),
                                     gf.eps, "add"),
                     rg |-> covariance(gf.I[1], gf.I[2], gf.mean_I.r, gf.mean_I.g),
                     rb |-> covariance(gf.I[1], gf.I[3], gf.mean_I.r, gf.mean_I.b),
                     gg |-> scalarOp(covariance(gf.I[2], gf.I[2], gf.mean_I.g, gf.mean_I.g),
                                     gf.eps, "add"),
                     gb |-> covariance(gf.I[2], gf.I[3], gf.mean_I.g, gf.mean_I.b),
                     bb |-> scalarOp(covariance(gf.I[3], gf.I[3], gf.mean_I.b, gf.mean_I.b),
                                     gf.eps, "add")]]
    /\ UNCHANGED <<box, dep, hz, im, vw, nm, ch, io>>

\* a * b - c * d
cofactor(a, b, c, d) == ImgSub(ImgMul(a, b), ImgMul(c, d))

\* invrr ... invbb are initialised with the cofactors
GuidedCofactors ==
    /\ gf.pc = "variances"
    /\ \E v \in {gf.var_I} :
          gf' = [gf EXCEPT
                   !.pc = "cofactors",
                   !.inv = [rr |-> cofactor(v.gg, v.bb, v.gb, v.gb),
                            rg |-> cofactor(v.gb, v.rb, v.rg, v.bb),
                            rb |-> cofactor(v.rg, v.gb, v.gg, v.rb),
                            gg |-> cofactor(v.rr, v.bb, v.rb, v.rb),
                            gb |-> cofactor(v.rb, v.rg, v.rr, v.gb),
                            bb |-> cofactor(v.rr, v.gg, v.rg, v.rg)]]
    /\ UNCHANGED <<box, dep, hz, im, vw, nm, ch, io>>

\* the body of the constructor: every cofactor is divided by covDet
GuidedInvert ==
    /\ gf.pc = "cofactors"
    /\ \E covDet \in {ImgAdd(ImgAdd(ImgMul(gf.inv.rr, gf.var_I.rr),
                                    ImgMul(gf.inv.rg, gf.var_I.rg)),
                             ImgMul(gf.inv.rb, gf.var_I.rb))} :
          gf' = [gf EXCEPT
                   !.pc = "values",
                   !.covDet = covDet,
                   !.inv = [c \in DOMAIN gf.inv |-> ImgDiv(gf.inv[c], covDet)]]
    /\ UNCHANGED <<box, dep, hz, im, vw, nm, ch, io>>

\* mean_p, mean_Ip_r, mean_Ip_g, mean_Ip_b
GuidedChannelMeans ==
    /\ gf.pc = "values"
    /\ ~sizesDiffer(gf.I[1], gf.input)
    /\ gf' = [gf EXCEPT
                !.pc = "channel means",
                !.mean_p = boxFilter(gf.input, gf.radius),
                !.mean_Ip = [r |-> boxFilter(ImgMul(gf.I[1], gf.input), gf.radius),
                             g |-> boxFilter(ImgMul(gf.I[2], gf.input), gf.radius),
                             b |-> boxFilter(ImgMul(gf.I[3], gf.input), gf.radius)]]
    /\ UNCHANGED <<box, dep, hz, im, vw, nm, ch, io>>

\* v.I[0] * input throws: the input and the guide differ in size
GuidedSizeError ==
    /\ gf.pc = "values"
    /\ sizesDiffer(gf.I[1], gf.input)
    /\ gf' = [gf EXCEPT !.pc = "failed", !.mean_p = boxFilter(gf.input, gf.radius)]
    /\ UNCHANGED <<box, dep, hz, im, vw, nm, ch, io>>

\* cov_Ip_r, cov_Ip_g, cov_Ip_b
GuidedCovariances ==
    /\ gf.pc = "channel means"
    /\ gf' = [gf EXCEPT
                !.pc = "covariances",
                !.cov_Ip = [c \in DOMAIN gf.mean_Ip |->
                               ImgSub(gf.mean_Ip[c], ImgMul(gf.mean_I[c], gf.mean_p))]]
    /\ UNCHANGED <<box, dep, hz, im, vw, nm, ch, io>>

\* x * cov_Ip_r + y * cov_Ip_g + z * cov_Ip_b
combine(x, y, z) ==
    ImgAdd(ImgAdd(ImgMul(x, gf.cov_Ip.r), ImgMul(y, gf.cov_Ip.g)), ImgMul(z, gf.cov_Ip.b))

\* a_r, a_g, a_b and b
GuidedCoefficients ==
    /\ gf.pc = "covariances"
    /\ \E a \in {[r |-> combine(gf.inv.rr, gf.inv.rg, gf.inv.rb),
                  g |-> combine(gf.inv.rg, gf.inv.gg, gf.inv.gb),
                  b |-> combine(gf.inv.rb, gf.inv.gb, gf.inv.bb)]} :
          gf' = [gf EXCEPT
                   !.pc = "coefficients",
                   !.a = a,
                   !.b = ImgSub(ImgSub(ImgSub(gf.mean_p, ImgMul(a.r, gf.mean_I.r)),
                                       ImgMul(a.g, gf.mean_I.g)),
                                ImgMul(a.b, gf.mean_I.b))]
    /\ UNCHANGED <<box, dep, hz, im, vw, nm, ch, io>>

\* the return statement of guidedFilterChannel, and of guidedFilter
GuidedReturn ==
    /\ gf.pc = "coefficients"
    /\ gf' = [gf EXCEPT
                !.pc = "done",
                !.out = ImgAdd(ImgAdd(ImgAdd(ImgMul(boxFilter(gf.a.r, gf.radius), gf.I[1]),
                                             ImgMul(boxFilter(gf.a.g, gf.radius), gf.I[2])),
                                      ImgMul(boxFilter(gf.a.b, gf.radius), gf.I[3])),
                               boxFilter(gf.b, gf.radius))]
    /\ UNCHANGED <<box, dep, hz, im, vw, nm, ch, io>>

NextGuided ==
    \/ GuidedMeans \/ GuidedVariances \/ GuidedCofactors \/ GuidedInvert
    \/ GuidedChannelMeans \/ GuidedSizeError \/ GuidedCovariances
    \/ GuidedCoefficients \/ GuidedReturn

SpecGuided == InitGuided /\ [][NextGuided]_vars

-----------------------------------------------------------------------------
(***************************************************************************)
(* image.h: BaseImage, its three constructors, operator[] and the          *)
(* arithmetic operators, applied one statement after the other.            *)
(*                                                                         *)
(* im.l is the image under test, built by constructor im.ctor from         *)
(* im.supplied.  A statement takes im.pc from "ready" to "evaluated" and   *)
(* leaves what it did in im.kind, im.op, im.r (the right operand),         *)
(* im.status ("ok", "ImageError", or "undefined" once it read or wrote     *)
(* outside a vector), im.res (the image returned by value) and im.coord,   *)
(* im.index, im.value (operator[]).  im.n counts the assignments to im.l.  *)
(***************************************************************************)
ImMaxW == 2

ImMaxH == 2

ImMaxOps == 1

Ramp(n) == Stored([k \in 1 .. n |-> F(k)])

\* BaseImage(width, height)
BaseImageSized(w, h) == Image(w, h, Zeros(w * h))

\* BaseImage(width, height, const PixelT* data): the delegated constructor
\* has filled m_data with width * height elements and back_inserter appends
BaseImageFromPointer(w, h, data) ==
    Image(w, h, BaseImageSized(w, h).data \o SubSeq(data, 1, w * h))

\* BaseImage(width, height, std::vector&& data), its assert holding
BaseImageFromVector(w, h, data) == Image(w, h, data)

Operators == {"add", "sub", "mul", "div"}

\* what a read past the end of a vector may yield
Garbage == {F(0), F(1), NaN}

\* detail::binaryAssignmentOp(l, r, op), past checkSizes; g is read where
\* r.data() has no element
binaryAssignmentOp(l, r, op, g) ==
    [l EXCEPT !.data =
        Stored([k \in 1 .. Len(l.data) |->
                   apply(op, l.data[k], IF k <= Len(r.data) THEN r.data[k] ELSE g)])]

\* the loop over i < l.data().size() stays inside out.data() and r.data()
loopInBounds(l, r) ==
    /\ Len(l.data) <= l.width * l.height
    /\ Len(l.data) <= Len(r.data)

\* the right operands tried with l: of its size, wider, and higher
Operands(l) ==
    {BaseImageFromVector(w, l.height, Ramp(w * l.height)) : w \in {l.width, l.width + 1}}
        \cup {BaseImageFromVector(l.width, l.height + 1, Ramp(l.width * (l.height + 1)))}

Nothing ==
    [kind |-> "none", op |-> "none", r |-> NoImage, status |-> "ok", res |-> NoImage,
     coord |-> <<0, 0>>, index |-> 0, value |-> F(0)]

InitImage ==
    /\ \E w \in 0 .. ImMaxW, h \in 0 .. ImMaxH, ctor \in 1 .. 3 :
          \E supplied \in CASE ctor = 1 -> {<<>>}
                            [] ctor = 2 -> {Ramp(w * h)}
                            [] ctor = 3 -> {Ramp(w * h), Ramp(w * h + 1)} :
             im = [pc |-> "ready", ctor |-> ctor, supplied |-> supplied, n |-> 0,
                   l |-> CASE ctor = 1 -> BaseImageSized(w, h)
                           [] ctor = 2 -> BaseImageFromPointer(w, h, supplied)
                           [] ctor = 3 -> BaseImageFromVector(w, h, supplied),
                   last |-> Nothing]
    /\ box = Idle /\ dep = Idle /\ hz = Idle /\ gf = Idle
    /\ vw = Idle /\ nm = Idle /\ ch = Idle /\ io = Idle

\* l + r, l - r, l * r, l / r
ImBinary ==
    /\ im.pc = "ready"
    /\ \E op \in Operators, r \in Operands(im.l) :
          LET call == [Nothing EXCEPT !.kind = "binary", !.op = op, !.r = r]
          IN  IF sizesDiffer(im.l, r)
              THEN im' = [im EXCEPT !.pc = "evaluated",
                                    !.last = [call EXCEPT !.status = "ImageError"]]
              ELSE IF loopInBounds(im.l, r)
              THEN im' = [im EXCEPT !.pc = "evaluated",
                                    !.last = [call EXCEPT !.res = binaryOp(im.l, r, op)]]
              ELSE \/ im' = [im EXCEPT !.pc = "crashed",
                                       !.last = [call EXCEPT !.status = "undefined"]]
                   \/ im' = [im EXCEPT !.pc = "evaluated",
                                       !.last = [call EXCEPT !.status = "undefined",
                                                             !.res = binaryOp(im.l, r, op)]]
    /\ UNCHANGED <<box, dep, hz, gf, vw, nm, ch, io>>

\* l += r, l -= r, l *= r, l /= r
ImAssign ==
    /\ im.pc = "ready"
    /\ im.n < ImMaxOps
    /\ \E op \in Operators, r \in Operands(im.l) :
          LET call == [Nothing EXCEPT !.kind = "assign", !.op = op, !.r = r]
          IN  IF sizesDiffer(im.l, r)
              THEN im' = [im EXCEPT !.pc = "evaluated",
                                    !.last = [call EXCEPT !.status = "ImageError"]]
              ELSE IF Len(im.l.data) <= Len(r.data)
              THEN im' = [im EXCEPT !.pc = "evaluated", !.n = @ + 1, !.last = call,
                                    !.l = binaryAssignmentOp(@, r, op, F(0))]
              ELSE \/ im' = [im EXCEPT !.pc = "crashed",
                                       !.last = [call EXCEPT !.status = "undefined"]]
                   \/ \E g \in Garbage :
                         im' = [im EXCEPT !.pc = "evaluated", !.n = @ + 1,
                                          !.last = [call EXCEPT !.status = "undefined"],
                                          !.l = binaryAssignmentOp(@, r, op, g)]
    /\ UNCHANGED <<box, dep, hz, gf, vw, nm, ch, io>>

\* l + v, l - v, l * v, l / v
ImScalar ==
    /\ im.pc = "ready"
    /\ \E op \in Operators, v \in {F(2)} :
          im' = [im EXCEPT !.pc = "evaluated",
                           !.last = [Nothing EXCEPT !.kind = "scalar", !.op = op,
                                                    !.res = scalarOp(im.l, v, op)]]
    /\ UNCHANGED <<box, dep, hz, gf, vw, nm, ch, io>>

\* l += v, l -= v, l *= v, l /= v
ImScalarAssign ==
    /\ im.pc = "ready"
    /\ im.n < ImMaxOps
    /\ \E op \in Operators, v \in {F(2)} :
          im' = [im EXCEPT !.pc = "evaluated", !.n = @ + 1,
                           !.last = [Nothing EXCEPT !.kind = "scalar assign", !.op = op],
                           !.l = scalarOp(@, v, op)]
    /\ UNCHANGED <<box, dep, hz, gf, vw, nm, ch, io>>

\* l[coord]: the assert of getIndexUnsafe is the bound of the vector
ImAccess ==
    /\ im.pc = "ready"
    /\ \E x \in -1 .. ImMaxW, y \in -1 .. ImMaxH :
          LET index == getIndex(im.l, <<x, y>>)
              call == [Nothing EXCEPT !.kind = "access", !.coord = <<x, y>>, !.index = index]
          IN  IF 0 <= index /\ index < Len(im.l.data)
              THEN im' = [im EXCEPT !.pc = "evaluated",
                                    !.last = [call EXCEPT !.value = im.l.data[index + 1]]]
              ELSE \/ im' = [im EXCEPT !.pc = "crashed",
                                       !.last = [call EXCEPT !.status = "undefined"]]
                   \/ \E g \in Garbage :
                         im' = [im EXCEPT !.pc = "evaluated",
                                          !.last = [call EXCEPT !.status = "undefined",
                                                                !.value = g]]
    /\ UNCHANGED <<box, dep, hz, gf, vw, nm, ch, io>>

\* the statement ends: its temporaries are gone, an ImageError is caught
ImStatementEnd ==
    /\ im.pc = "evaluated"
    /\ im' = [im EXCEPT !.pc = "ready", !.last = Nothing]
    /\ UNCHANGED <<box, dep, hz, gf, vw, nm, ch, io>>

NextImage ==
    ImBinary \/ ImAssign \/ ImScalar \/ ImScalarAssign \/ ImAccess \/ ImStatementEnd

SpecImage == InitImage /\ [][NextImage]_vars

-----------------------------------------------------------------------------
(***************************************************************************)
(* image.h and image_view.h: BaseImage::getView, ImageView::subView and    *)
(* centredSubView, and a range-for over the view they return.              *)
(*                                                                         *)
(* vw.image is the image (its size is all a view reads), vw.kind and       *)
(* vw.req are the last call and its arguments, vw.parent the view it was   *)
(* called on and vw.view the view it returned.  vw.it is m_coord of the    *)
(* iterator of the range-for and vw.visited the coordinates its body has   *)
(* received.  vw.pc is "crashed" when the division by a zero width stopped *)
(* the program.                                                            *)
(***************************************************************************)
VwMaxW == 2

VwMaxH == 2

\* a range-for that has not ended after this many coordinates never ends
VisitCap == (VwMaxW + 2) * (VwMaxH + 2)

\* ImageView::begin(), ImageView::end() and the operators of the iterator
begin(view) == <<0, 0>>

end(view) == <<0, view.height>>

deref(view, coord) == <<view.offset[1] + coord[1], view.offset[2] + coord[2]>>

\* operator++ that moves to the next row one column too late
incrementWrapLate(view, coord) ==
    LET newX == coord[1] + 1
    IN  <<newX % (view.width + 1), coord[2] + newX \div (view.width + 1)>>

increment(view, coord) ==
    LET newX == coord[1] + 1
    IN  <<newX % view.width, coord[2] + newX \div view.width>>

\* a division by zero that does not trap yields quotient 0, remainder newX
incrementNoTrap(view, coord) == <<coord[1] + 1, coord[2]>>

NoView == [offset |-> <<0, 0>>, width |-> 0, height |-> 0]

InitView ==
    /\ \E w \in 1 .. VwMaxW, h \in 1 .. VwMaxH :
          vw = [pc |-> "image", image |-> BaseImageSized(w, h),
                kind |-> "none", req |-> NoView, parent |-> NoView, view |-> NoView,
                it |-> <<0, 0>>, visited |-> <<>>, incs |-> 0,
                round |-> 1, first |-> <<>>]
    /\ box = Idle /\ dep = Idle /\ hz = Idle /\ gf = Idle /\ im = Idle
    /\ nm = Idle /\ ch = Idle /\ io = Idle

\* image.getView(offset, width, height)
ViewGet ==
    /\ vw.pc = "image"
    /\ \E x \in -1 .. vw.image.width, y \in -1 .. vw.image.height,
          w \in 0 .. vw.image.width + 1, h \in 0 .. vw.image.height + 1 :
          vw' = [vw EXCEPT !.pc = "view", !.kind = "getView",
                           !.req = [offset |-> <<x, y>>, width |-> w, height |-> h],
                           !.parent = getView(vw.image),
                           !.view = getViewOf(vw.image, <<x, y>>, w, h)]
    /\ UNCHANGED <<box, dep, hz, gf, im, nm, ch, io>>

\* view.subView(offset, width, height), on a view that getView returned
ViewSub ==
    /\ vw.pc = "view"
    /\ vw.kind = "getView"
    /\ \E x \in -1 .. 1, y \in -1 .. 1, w \in 1 .. 2, h \in 1 .. 2 :
          vw' = [vw EXCEPT !.kind = "subView",
                           !.req = [offset |-> <<x, y>>, width |-> w, height |-> h],
                           !.parent = vw.view,
                           !.view = subView(vw.view, <<x, y>>, w, h)]
    /\ UNCHANGED <<box, dep, hz, gf, im, nm, ch, io>>

\* view.centredSubView(centre, width, height), on a view that getView returned
ViewCentredSub ==
    /\ vw.pc = "view"
    /\ vw.kind = "getView"
    /\ \E x \in 0 .. 1, y \in 0 .. 1, w \in 1 .. 3, h \in 1 .. 3 :
          vw' = [vw EXCEPT !.kind = "centredSubView",
                           !.req = [offset |-> <<x, y>>, width |-> w, height |-> h],
                           !.parent = vw.view,
                           !.view = centredSubView(vw.view, <<x, y>>, w, h)]
    /\ UNCHANGED <<box, dep, hz, gf, im, nm, ch, io>>

\* for (Coord coord : view): the iterator starts at begin()
ViewBegin ==
    /\ vw.pc = "view"
    /\ vw' = [vw EXCEPT !.pc = "iterating", !.it = begin(vw.view), !.visited = <<>>,
                        !.incs = 0]
    /\ UNCHANGED <<box, dep, hz, gf, im, nm, ch, io>>

\* it != end(): the body receives *it
ViewDeref ==
    /\ vw.pc = "iterating"
    /\ vw.it # end(vw.view)
    /\ Len(vw.visited) < VisitCap
    /\ vw' = [vw EXCEPT !.pc = "body", !.visited = Append(@, deref(vw.view, vw.it))]
    /\ UNCHANGED <<box, dep, hz, gf, im, nm, ch, io>>

\* ++it; with a width of 0 the two divisions are undefined
ViewIncrement ==
    /\ vw.pc = "body"
    /\ IF vw.view.width # 0
       THEN vw' = [vw EXCEPT !.pc = "iterating", !.it = increment(vw.view, @),
                             !.incs = @ + 1]
       ELSE \/ vw' = [vw EXCEPT !.pc = "crashed"]
            \/ vw' = [vw EXCEPT !.pc = "iterating", !.it = incrementNoTrap(vw.view, @),
                                !.incs = @ + 1]
    /\ UNCHANGED <<box, dep, hz, gf, im, nm, ch, io>>

\* it == end(): the range-for is over
ViewEnd ==
    /\ vw.pc = "iterating"
    /\ vw.it = end(vw.view)
    /\ vw' = [vw EXCEPT !.pc = "done"]
    /\ UNCHANGED <<box, dep, hz, gf, im, nm, ch, io>>

NextView ==
    \/ ViewGet \/ ViewSub \/ ViewCentredSub
    \/ ViewBegin \/ ViewDeref \/ ViewIncrement \/ ViewEnd

SpecView == InitView /\ [][NextView]_vars

(***************************************************************************)
(* A view built with the constructor of ImageView and walked twice by a    *)
(* range-for.  vw.incs counts the calls of operator++ of the running walk, *)
(* vw.first holds what the first walk gave its body, vw.round is 1 or 2.   *)
(***************************************************************************)
InitIterate ==
    /\ \E x \in -1 .. 1, y \in -1 .. 1, w \in 0 .. VwMaxW + 1, h \in 0 .. VwMaxH + 1 :
          vw = [pc |-> "view", image |-> NoImage, kind |-> "ImageView",
                req |-> [offset |-> <<x, y>>, width |-> w, height |-> h],
                parent |-> NoView, view |-> ImageView(<<x, y>>, w, h),
                it |-> <<0, 0>>, visited |-> <<>>, incs |-> 0,
                round |-> 1, first |-> <<>>]
    /\ box = Idle /\ dep = Idle /\ hz = Idle /\ gf = Idle /\ im = Idle
    /\ nm = Idle /\ ch = Idle /\ io = Idle

\* a second for (Coord coord : view) over the same view
ViewRestart ==
    /\ vw.pc = "done"
    /\ vw.round = 1
    /\ vw' = [vw EXCEPT !.pc = "iterating", !.it = begin(vw.view), !.first = vw.visited,
                        !.visited = <<>>, !.incs = 0, !.round = 2]
    /\ UNCHANGED <<box, dep, hz, gf, im, nm, ch, io>>

NextIterate ==
    ViewBegin \/ ViewDeref \/ ViewIncrement \/ ViewEnd \/ ViewRestart

\* the thread that runs the loop takes its next step as long as it has one
SpecIterate == InitIterate /\ [][NextIterate]_vars /\ WF_vars(NextIterate)

-----------------------------------------------------------------------------
(***************************************************************************)
(* filters.h: normalise, statement by statement.                           *)
(*                                                                         *)
(* nm.in is the image at the call, nm.img the image being rewritten in     *)
(* place, nm.min and nm.max the locals of those names, nm.k the number of  *)
(* elements of data() the running loop has passed.                         *)
(***************************************************************************)
NmMaxW == 2

NmMaxH == 2

NmMaxLit == 2

\* images of -2 with at most NmMaxLit pixels of -1 or 1: values of either
\* sign, far enough from 0 for the smallest positive float to make no
\* difference to which pixels come out as 0 and as 1
NmImages(w, h) == SparseImages(w, h, F(-2), {F(-1), F(1)}, NmMaxLit)

InitNormalise ==
    /\ \E w \in 1 .. NmMaxW, h \in 1 .. NmMaxH :
          \E img \in NmImages(w, h) :
             nm = [pc |-> "scan", in |-> img, img |-> img, k |-> 0,
                   min |-> FltMax, max |-> FltMin]
    /\ box = Idle /\ dep = Idle /\ hz = Idle /\ gf = Idle /\ im = Idle
    /\ vw = Idle /\ ch = Idle /\ io = Idle

\* one iteration of the first loop
NormScan ==
    /\ nm.pc = "scan"
    /\ nm.k < Len(nm.img.data)
    /\ nm' = [nm EXCEPT !.min = FMin(@, nm.img.data[nm.k + 1]),
                        !.max = FMax(@, nm.img.data[nm.k + 1]),
                        !.k = @ + 1]
    /\ UNCHANGED <<box, dep, hz, gf, im, vw, ch, io>>

\* the first loop ends and the second begins
NormScanEnd ==
    /\ nm.pc = "scan"
    /\ nm.k = Len(nm.img.data)
    /\ nm' = [nm EXCEPT !.pc = "scale", !.k = 0]
    /\ UNCHANGED <<box, dep, hz, gf, im, vw, ch, io>>

\* one iteration of the second loop
NormScale ==
    /\ nm.pc = "scale"
    /\ nm.k < Len(nm.img.data)
    /\ nm' = [nm EXCEPT
                 !.img.data[nm.k + 1] = FDiv(FSub(@, nm.min), FSub(nm.max, nm.min)),
                 !.k = @ + 1]
    /\ UNCHANGED <<box, dep, hz, gf, im, vw, ch, io>>

NormReturn ==
    /\ nm.pc = "scale"
    /\ nm.k = Len(nm.img.data)
    /\ nm' = [nm EXCEPT !.pc = "done"]
    /\ UNCHANGED <<box, dep, hz, gf, im, vw, ch, io>>

NextNormalise == NormScan \/ NormScanEnd \/ NormScale \/ NormReturn

SpecNormalise == InitNormalise /\ [][NextNormalise]_vars

-----------------------------------------------------------------------------
(***************************************************************************)
(* image.cpp: splitChannels followed by joinChannels.                      *)
(*                                                                         *)
(* ch.image is the RGB image, ch.channels the array splitChannels returns  *)
(* and ch.out the image joinChannels returns.                              *)
(***************************************************************************)
ChMaxW == 2

ChMaxH == 2

ChMaxLit == 2

\* black images with at most ChMaxLit pixels of a colour whose channels differ
ChImages(w, h) == SparseImages(w, h, Black, {Red, Azure}, ChMaxLit)

NoChannels == <<NoImage, NoImage, NoImage>>

InitChannels ==
    /\ \E w \in 1 .. ChMaxW, h \in 1 .. ChMaxH :
          \E img \in ChImages(w, h) :
             ch = [pc |-> "image", image |-> img, channels |-> NoChannels,
                   out |-> NoImage]
    /\ box = Idle /\ dep = Idle /\ hz = Idle /\ gf = Idle /\ im = Idle
    /\ vw = Idle /\ nm = Idle /\ io = Idle

ChSplit ==
    /\ ch.pc = "image"
    /\ ch' = [ch EXCEPT !.pc = "split", !.channels = splitChannels(ch.image)]
    /\ UNCHANGED <<box, dep, hz, gf, im, vw, nm, io>>

ChJoin ==
    /\ ch.pc = "split"
    /\ ch' = [ch EXCEPT !.pc = "joined",
                        !.out = joinChannels(ch.channels[1], ch.channels[2],
                                             ch.channels[3])]
    /\ UNCHANGED <<box, dep, hz, gf, im, vw, nm, io>>

NextChannels == ChSplit \/ ChJoin

SpecChannels == InitChannels /\ [][NextChannels]_vars

-----------------------------------------------------------------------------
(***************************************************************************)
(* main.cpp: dehaze, over image.cpp: checkIlError, initIl, loadRgbImage,   *)
(* saveGreyImage and saveRgbImage.                                         *)
(*                                                                         *)
(* io.pc names the DevIL call the run is about to make, io.queue holds the *)
(* errors DevIL has recorded and ilGetError has not yet taken, io.files    *)
(* the output files written, io.n the number of save calls that returned   *)
(* and io.thrown the exception that ended the run, if one did; io.cerr is  *)
(* what checkIlError has written to std::cerr.  What a DevIL call records  *)
(* is the choice of the environment.                                       *)
(***************************************************************************)
IoMaxErrs == 2

IlErrors == {"IL_INVALID_ENUM", "IL_OUT_OF_MEMORY", "IL_COULD_NOT_OPEN_FILE"}

\* the errors one DevIL call may record
ErrSeqs == UNION {[1 .. n -> IlErrors] : n \in 0 .. IoMaxErrs}

iluErrorString(error) ==
    CASE error = "IL_INVALID_ENUM" -> "invalid enumerant"
      [] error = "IL_OUT_OF_MEMORY" -> "out of memory"
      [] error = "IL_COULD_NOT_OPEN_FILE" -> "could not open file"

\* ilGetError: the oldest recorded error, taken off the queue
ilGetError(queue) ==
    IF queue = <<>> THEN [error |-> "IL_NO_ERROR", queue |-> <<>>]
    ELSE [error |-> Head(queue), queue |-> Tail(queue)]

\* the while loop of checkIlError: ss holds the strings written to it so far
RECURSIVE checkIlErrorLoop(_, _, _, _)
checkIlErrorLoop(error, queue, ss, reported) ==
    IF error = "IL_NO_ERROR"
    THEN [any |-> reported # <<>>, message |-> ss, reported |-> reported,
          queue |-> queue]
    ELSE LET str == iluErrorString(error)
             next == ilGetError(queue)
         IN  checkIlErrorLoop(next.error, next.queue,
                              IF next.error # "IL_NO_ERROR" THEN Append(ss, str) ELSE ss,
                              Append(reported, error))

\* checkIlError: any tells whether it throws, message is what ss.str() holds
checkIlError(queue) ==
    LET first == ilGetError(queue)
    IN  checkIlErrorLoop(first.error, first.queue, <<>>, <<>>)

\* the files dehaze saves, in the order of its save calls
Outputs(saveIntermediates) ==
    IF saveIntermediates
    THEN <<"_unfiltered_depth.jpg", "_depth.jpg", "_dehazed.jpg">>
    ELSE <<"_dehazed.jpg">>

NoException == [by |-> "none", reported |-> <<>>, message |-> <<>>]

\* the run after checkIlError has thrown with the result c
Thrown(c) ==
    [io EXCEPT !.pc = "failed", !.queue = c.queue,
               !.cerr = @ \o [k \in 1 .. Len(c.reported) |->
                                 iluErrorString(c.reported[k])],
               !.thrown = [by |-> "checkIlError", reported |-> c.reported,
                           message |-> c.message]]

InitDriver ==
    /\ \E si \in BOOLEAN :
          io = [pc |-> "initIl", saveIntermediates |-> si, ilInitialised |-> FALSE,
                queue |-> <<>>, files |-> {}, n |-> 0, cerr |-> <<>>,
                thrown |-> NoException]
    /\ box = Idle /\ dep = Idle /\ hz = Idle /\ gf = Idle /\ im = Idle
    /\ vw = Idle /\ nm = Idle /\ ch = Idle

\* loadRgbImage: initIl, with its two calls of checkIlError
DriverInitIl ==
    /\ io.pc = "initIl"
    /\ \E a \in ErrSeqs, b \in ErrSeqs :
          \E c1 \in {checkIlError(io.queue \o a)} :
             IF c1.any THEN io' = Thrown(c1)
             ELSE \E c2 \in {checkIlError(c1.queue \o b)} :
                     IF c2.any THEN io' = Thrown(c2)
                     ELSE io' = [io EXCEPT !.pc = "ilBindImage", !.queue = c2.queue,
                                           !.ilInitialised = TRUE]
    /\ UNCHANGED <<box, dep, hz, gf, im, vw, nm, ch>>

\* loadRgbImage: ilBindImage and checkIlError
DriverBindImage ==
    /\ io.pc = "ilBindImage"
    /\ \E a \in ErrSeqs :
          \E c \in {checkIlError(io.queue \o a)} :
             IF c.any THEN io' = Thrown(c)
             ELSE io' = [io EXCEPT !.pc = "ilLoadImage", !.queue = c.queue]
    /\ UNCHANGED <<box, dep, hz, gf, im, vw, nm, ch>>

\* loadRgbImage: ilLoadImage, the throw on IL_FALSE, and checkIlError
DriverLoadImage ==
    /\ io.pc = "ilLoadImage"
    /\ \E ok \in BOOLEAN, a \in ErrSeqs :
          /\ ~ok => a # <<>>
          /\ IF ~ok
             THEN io' = [io EXCEPT !.pc = "failed", !.queue = @ \o a,
                                   !.thrown = [by |-> "ilLoadImage", reported |-> a,
                                               message |-> <<"Failed to load image">>]]
             ELSE \E c \in {checkIlError(io.queue \o a)} :
                     IF c.any THEN io' = Thrown(c)
                     ELSE io' = [io EXCEPT !.pc = "ilCopyPixels", !.queue = c.queue]
    /\ UNCHANGED <<box, dep, hz, gf, im, vw, nm, ch>>

\* loadRgbImage: ilCopyPixels, checkIlError and the return
DriverCopyPixels ==
    /\ io.pc = "ilCopyPixels"
    /\ \E a \in ErrSeqs :
          \E c \in {checkIlError(io.queue \o a)} :
             IF c.any THEN io' = Thrown(c)
             ELSE io' = [io EXCEPT !.pc = "compute", !.queue = c.queue]
    /\ UNCHANGED <<box, dep, hz, gf, im, vw, nm, ch>>

\* getDepthFromHazyImage, guidedFilter and removeHaze, none of which has a
\* failing exit on a depth map of the size of the image
DriverCompute ==
    /\ io.pc = "compute"
    /\ io' = [io EXCEPT !.pc = "ilTexImage"]
    /\ UNCHANGED <<box, dep, hz, gf, im, vw, nm, ch>>

\* a save call: initIl (which returns at once when DevIL is initialised),
\* ilBindImage, ilTexImage and checkIlError
DriverTexImage ==
    /\ io.pc = "ilTexImage"
    /\ io.n < Len(Outputs(io.saveIntermediates))
    /\ io.ilInitialised
    /\ \E a \in ErrSeqs :
          \E c \in {checkIlError(io.queue \o a)} :
             IF c.any THEN io' = Thrown(c)
             ELSE io' = [io EXCEPT !.pc = "ilSaveImage", !.queue = c.queue]
    /\ UNCHANGED <<box, dep, hz, gf, im, vw, nm, ch>>

\* a save call: ilSaveImage, which writes the file unless it records an
\* error, checkIlError and the return; after the last save dehaze returns
DriverSaveImage ==
    /\ io.pc = "ilSaveImage"
    /\ \E a \in ErrSeqs :
          \E c \in {checkIlError(io.queue \o a)},
             files \in {IF a = <<>>
                        THEN io.files \cup {Outputs(io.saveIntermediates)[io.n + 1]}
                        ELSE io.files} :
             IF c.any THEN io' = [Thrown(c) EXCEPT !.files = files]
             ELSE io' = [io EXCEPT
                           !.pc = IF io.n + 1 = Len(Outputs(io.saveIntermediates))
                                  THEN "done" ELSE "ilTexImage",
                           !.queue = c.queue, !.files = files, !.n = @ + 1]
    /\ UNCHANGED <<box, dep, hz, gf, im, vw, nm, ch>>

NextDriver ==
    \/ DriverInitIl
    \/ DriverBindImage
    \/ DriverLoadImage
    \/ DriverCopyPixels
    \/ DriverCompute
    \/ DriverTexImage
    \/ DriverSaveImage

SpecDriver == InitDriver /\ [][NextDriver]_vars

-----------------------------------------------------------------------------
(***************************************************************************)
(* image.cpp: loadRgbImage, loadGreyImage, saveRgbImage and saveGreyImage  *)
(* called from several threads.                                            *)
(*                                                                         *)
(* io.owner and io.count are the state of ilMutex (owner 0: unlocked),     *)
(* io.ilInitialised the static flag of initIl, io.pending whether DevIL    *)
(* holds errors, io.ilInits the number of calls of ilInit made so         *)
(* far and io.initFailed whether an exception has left initIl.  io.th[t]   *)
(* is thread t: its stack of frames [fn, ip, any] (ip the next statement   *)
(* of fn, any the local of checkIlError), inIl while it executes a DevIL   *)
(* function, unwinding while an exception propagates, left the calls it    *)
(* has yet to make.  The Grey functions run the statements of the Rgb      *)
(* ones with other pixel formats.                                          *)
(***************************************************************************)
IlThreads == 2

IlCalls == 1

Threads == 1 .. IlThreads

Ops == {"loadRgbImage", "loadGreyImage", "saveRgbImage", "saveGreyImage"}

Lock == [k |-> "lock", f |-> "ilMutex"]

Il(f) == [k |-> "il", f |-> f]

Call(f) == [k |-> "call", f |-> f]

Ret == [k |-> "ret", f |-> "ilMutex"]

\* the statements of each function: the lock_guard, the DevIL calls, the
\* calls of initIl and checkIlError, and the end of the scope
Load ==
    <<Lock, Call("initIl"), Il("ilGenImage"), Il("ilBindImage"), Call("checkIlError"),
      Il("ilLoadImage"), Call("checkIlError"), Il("ilGetInteger"), Il("ilCopyPixels"),
      Call("checkIlError"), Il("ilDeleteImage"), Ret>>

Save ==
    <<Lock, Call("initIl"), Il("ilGenImage"), Il("ilBindImage"), Il("ilTexImage"),
      Call("checkIlError"), Il("ilSaveImage"), Call("checkIlError"),
      Il("ilDeleteImage"), Ret>>

InitIlBody ==
    <<Lock, [k |-> "ifInitialised", f |-> "ilInitialised"], Il("ilInit"), Il("iluInit"),
      Call("checkIlError"), Il("ilEnable"), Il("ilOriginFunc"), Call("checkIlError"),
      Il("ilEnable"), [k |-> "setInitialised", f |-> "ilInitialised"], Ret>>

CheckIlErrorBody ==
    <<Lock, Il("ilGetError"), [k |-> "throwIfAny", f |-> "any"], Ret>>

Prog(fn) ==
    CASE fn \in {"loadRgbImage", "loadGreyImage"} -> Load
      [] fn \in {"saveRgbImage", "saveGreyImage"} -> Save
      [] fn = "initIl" -> InitIlBody
      [] fn = "checkIlError" -> CheckIlErrorBody

\* where a frame continues when an exception passes through it: at the
\* destructor of IlImageGuard if img has been constructed, else at the
\* release of its lock_guard
Cleanup(frame) ==
    IF frame.fn \in Ops /\ frame.ip > 3 /\ frame.ip < Len(Prog(frame.fn))
    THEN Len(Prog(frame.fn)) - 1
    ELSE Len(Prog(frame.fn))

\* a lock() that returns whoever owns the mutex
canLockAny(owner, t) == owner \in {0} \cup Threads

\* std::recursive_mutex: lock() returns when no other thread owns the mutex
canLock(owner, t) == owner \in {0, t}

TopFrame(t) == io.th[t].stack[Len(io.th[t].stack)]

\* the statement thread t is at
Instr(t) ==
    IF io.th[t].stack = <<>> THEN [k |-> "none", f |-> "none"]
    ELSE Prog(TopFrame(t).fn)[TopFrame(t).ip]

\* the stack of thread t with the ip of its top frame set
WithIp(t, ip) ==
    [io.th[t].stack EXCEPT ![Len(io.th[t].stack)].ip = ip]

InitThreads ==
    /\ io = [owner |-> 0, count |-> 0, ilInitialised |-> FALSE, pending |-> FALSE,
             ilInits |-> 0, initFailed |-> FALSE,
             th |-> [t \in Threads |->
                       [stack |-> <<>>, inIl |-> FALSE, unwinding |-> FALSE,
                        left |-> IlCalls]]]
    /\ box = Idle /\ dep = Idle /\ hz = Idle /\ gf = Idle /\ im = Idle
    /\ vw = Idle /\ nm = Idle /\ ch = Idle

\* thread t calls one of the four functions
IlCall(t) ==
    /\ io.th[t].stack = <<>>
    /\ io.th[t].left > 0
    /\ \E fn \in Ops :
          io' = [io EXCEPT !.th[t].stack = <<[fn |-> fn, ip |-> 1, any |-> FALSE]>>,
                           !.th[t].left = @ - 1]
    /\ UNCHANGED <<box, dep, hz, gf, im, vw, nm, ch>>

\* std::lock_guard<std::recursive_mutex> lock{ ilMutex }
IlLock(t) ==
    /\ Instr(t).k = "lock"
    /\ canLock(io.owner, t)
    /\ io' = [io EXCEPT !.owner = t, !.count = @ + 1,
                        !.th[t].stack = WithIp(t, TopFrame(t).ip + 1)]
    /\ UNCHANGED <<box, dep, hz, gf, im, vw, nm, ch>>

\* thread t enters a DevIL function
IlEnter(t) ==
    /\ Instr(t).k = "il"
    /\ ~io.th[t].inIl
    /\ io' = [io EXCEPT !.th[t].inIl = TRUE,
                        !.ilInits = IF Instr(t).f = "ilInit" THEN @ + 1 ELSE @]
    /\ UNCHANGED <<box, dep, hz, gf, im, vw, nm, ch>>

\* the DevIL function returns, having recorded an error or not; ilGetError,
\* called until it returns IL_NO_ERROR, empties the errors; ilLoadImage may
\* return IL_FALSE, which the caller answers with a throw
IlLeave(t) ==
    /\ Instr(t).k = "il"
    /\ io.th[t].inIl
    /\ \E err \in BOOLEAN, ok \in BOOLEAN :
          /\ ~ok => Instr(t).f = "ilLoadImage" /\ err
          /\ Instr(t).f \in {"ilGetError", "ilDeleteImage"} => ~err
          /\ io' = [io EXCEPT
                      !.th[t].inIl = FALSE,
                      !.pending = IF Instr(t).f = "ilGetError" THEN FALSE
                                  ELSE @ \/ err,
                      !.th[t].unwinding = IF ok THEN @ ELSE TRUE,
                      !.th[t].stack =
                          IF ~ok THEN WithIp(t, Cleanup(TopFrame(t)))
                          ELSE [@ EXCEPT ![Len(@)] =
                                   [@ EXCEPT !.ip = @ + 1,
                                             !.any = IF Instr(t).f = "ilGetError"
                                                     THEN io.pending ELSE @]]]
    /\ UNCHANGED <<box, dep, hz, gf, im, vw, nm, ch>>

\* initIl() or checkIlError() is called
IlInvoke(t) ==
    /\ Instr(t).k = "call"
    /\ io' = [io EXCEPT !.th[t].stack =
                 Append(WithIp(t, TopFrame(t).ip + 1),
                        [fn |-> Instr(t).f, ip |-> 1, any |-> FALSE])]
    /\ UNCHANGED <<box, dep, hz, gf, im, vw, nm, ch>>

\* if (ilInitialised) { return; }
IlIfInitialised(t) ==
    /\ Instr(t).k = "ifInitialised"
    /\ io' = [io EXCEPT !.th[t].stack =
                 WithIp(t, IF io.ilInitialised THEN Len(InitIlBody) ELSE TopFrame(t).ip + 1)]
    /\ UNCHANGED <<box, dep, hz, gf, im, vw, nm, ch>>

\* ilInitialised = true
IlSetInitialised(t) ==
    /\ Instr(t).k = "setInitialised"
    /\ io' = [io EXCEPT !.ilInitialised = TRUE,
                        !.th[t].stack = WithIp(t, TopFrame(t).ip + 1)]
    /\ UNCHANGED <<box, dep, hz, gf, im, vw, nm, ch>>

\* if (any) { throw ImageError{ ss.str() }; }
IlThrowIfAny(t) ==
    /\ Instr(t).k = "throwIfAny"
    /\ io' = [io EXCEPT !.th[t].unwinding = TopFrame(t).any,
                        !.th[t].stack = WithIp(t, TopFrame(t).ip + 1)]
    /\ UNCHANGED <<box, dep, hz, gf, im, vw, nm, ch>>

\* the scope of the function ends, by return or by exception: the
\* lock_guard unlocks; an exception goes on in the calling frame, or
\* leaves the thread's call
IlReturn(t) ==
    /\ Instr(t).k = "ret"
    /\ LET rest == SubSeq(io.th[t].stack, 1, Len(io.th[t].stack) - 1)
       IN  io' = [io EXCEPT
                    !.count = @ - 1,
                    !.owner = IF io.count = 1 THEN 0 ELSE @,
                    !.initFailed = @ \/ (TopFrame(t).fn = "initIl" /\ io.th[t].unwinding),
                    !.th[t].unwinding = @ /\ rest # <<>>,
                    !.th[t].stack =
                        IF io.th[t].unwinding /\ rest # <<>>
                        THEN [rest EXCEPT ![Len(rest)].ip = Cleanup(rest[Len(rest)])]
                        ELSE rest]
    /\ UNCHANGED <<box, dep, hz, gf, im, vw, nm, ch>>

NextThreads ==
    \E t \in Threads :
        \/ IlCall(t)
        \/ IlLock(t)
        \/ IlEnter(t)
        \/ IlLeave(t)
        \/ IlInvoke(t)
        \/ IlIfInitialised(t)
        \/ IlSetInitialised(t)
        \/ IlThrowIfAny(t)
        \/ IlReturn(t)

SpecThreads == InitThreads /\ [][NextThreads]_vars

-----------------------------------------------------------------------------
(***************************************************************************)
(* Claims about the box filter.                                            *)
(***************************************************************************)
RECURSIVE SumSet(_, _)
SumSet(img, S) ==
    IF S = {} THEN F(0)
    ELSE LET c == CHOOSE c \in S : TRUE
         IN  FAdd(At(img, c), SumSet(img, S \ {c}))

\* the mean of img over the in-bounds coordinates of [x0, x1] x [y0, y1]
MeanOver(img, x0, x1, y0, y1) ==
    LET S == {c \in Coords(img.width, img.height) :
                 x0 <= c[1] /\ c[1] <= x1 /\ y0 <= c[2] /\ c[2] <= y1}
    IN  FDiv(SumSet(img, S), F(Cardinality(S)))

\* the positions a window of side ws reaches to the left and to the right
\* of its output position
ReachLeft(ws) == ws - 1 - ws \div 2

ReachRight(ws) == ws \div 2

\* C1 as stated: boxFilter(image, r) is the mean over the in-bounds part of
\* the square [x-r, x+r] x [y-r, y+r], of side 2r+1.  (Stated for r >= 1, where
\* the result is a mean at all; with r = 0 the code divides 0 by the weight 0.)
C1_Original ==
    (box.pc = "done" /\ box.r >= 1) =>
        \A c \in Coords(box.image.width, box.image.height) :
            At(box.out, c) = MeanOver(box.image, c[1] - box.r, c[1] + box.r,
                                                 c[2] - box.r, c[2] + box.r)

\* C1 (amended): boxFilter(image, r) takes r as the side of the window.  For
\* every r >= 1 the result at (x, y) is the sum of the input over the in-bounds
\* coordinates of [x-(r-1-r/2), x+r/2] x [y-(r-1-r/2), y+r/2] (for odd r = 2k+1
\* the square [x-k, x+k] x [y-k, y+k]) divided by their number, and on a row
\* or column of length >= r the divisor used at its first position is r/2 + 1,
\* which makes (r/2 + 1)^2 at the top-left corner.
C1_BoxFilterIsClippedMean ==
    /\ (box.pc = "done" /\ box.r >= 1) =>
          \A c \in Coords(box.image.width, box.image.height) :
              At(box.out, c) =
                  MeanOver(box.image, c[1] - ReachLeft(box.r), c[1] + ReachRight(box.r),
                                      c[2] - ReachLeft(box.r), c[2] + ReachRight(box.r))
    /\ (/\ box.pc \in {"hpass", "vpass"}
        /\ box.r >= 1
        /\ innerSize >= box.r
        /\ box.o = halfWindowSize + 1) =>
          /\ box.weight = box.r \div 2 + 1
          /\ box.rowOrColumn[1] = FDiv(box.accum, F(box.r \div 2 + 1))

\* a 3x3 image with a single one, in the window of the corner, filtered with
\* r = 3: the corner is 1/4
C1_Witness ==
    /\ box.pc = "done"
    /\ box.r = 3
    /\ box.image.width = 3 /\ box.image.height = 3
    /\ At(box.image, <<1, 1>>) = F(1)
    /\ At(box.out, <<0, 0>>) = <<1, 4>>
    /\ At(box.out, <<1, 1>>) = <<1, 9>>

\* every pixel of img holds the value c
Constant(img, c) == \A k \in 1 .. Len(img.data) : img.data[k] = c

\* C14, as stated: boxFilter of an image whose pixels all hold the same
\* value c returns an image whose pixels all hold c, for every r >= 0, r = 0
\* included.
C14_Original ==
    (box.pc = "done" /\ Constant(box.image, box.image.data[1])) =>
        Constant(box.out, box.image.data[1])

\* an output of the running row / column has been written by the last
\* iteration of the loop over o, with box.weight as its divisor
Written == box.pc \in {"hpass", "vpass"} /\ box.o > halfWindowSize

\* C15: in a pass with windowSize >= 1 the weight that divides accum at an
\* output write is at least 1 and at most the length of the row / column,
\* also when the window is as long as the row / column or longer.
C15_WeightWithinExtent ==
    (Written /\ windowSize >= 1) =>
        1 <= box.weight /\ box.weight <= innerSize

\* a column of length 2 under a window of size 3: the last write divides by
\* 2, the length of the column
C15_Witness ==
    /\ Written
    /\ box.pc = "vpass"
    /\ windowSize = 3 /\ innerSize = 2
    /\ box.o = innerSize + halfWindowSize
    /\ box.weight = 2

\* the naive horizontal pass: every pixel is the mean of the in-bounds
\* pixels of its row at distance at most k
NaiveRows(img, k) ==
    Image(img.width, img.height,
          [n \in 1 .. Len(img.data) |->
              LET x == (n - 1) % img.width
                  y == (n - 1) \div img.width
              IN  MeanOver(img, x - k, x + k, y, y)])

\* the image as it was when the running pass began
PrePass ==
    IF vertical THEN NaiveRows(box.image, halfWindowSize) ELSE box.image

\* the position of the running row / column the last iteration wrote
WrittenAt == box.o - 1 - halfWindowSize

\* the in-bounds positions of the running row / column at distance at most
\* k from position c, as coordinates of the image
NaiveWindow(c, k) ==
    {passCoord(vertical, box.i, p) :
        p \in Max(0, c - k) .. Min(innerSize - 1, c + k)}

\* C20: in a pass with an odd windowSize = 2k+1, whether shorter than the
\* row / column, as long or longer, the accum and the weight behind the
\* write at position c are the sum and the number of the values the image
\* held before the pass at positions max(0, c-k) .. min(n-1, c+k) of that
\* row / column; the value written is their quotient, and no value the pass
\* wrote has entered the sum.
C20_PassIsNaiveWindow ==
    (Written /\ windowSize % 2 = 1) =>
        /\ box.accum = SumSet(PrePass, NaiveWindow(WrittenAt, halfWindowSize))
        /\ box.weight = Cardinality(NaiveWindow(WrittenAt, halfWindowSize))
        /\ box.rowOrColumn[WrittenAt + 1] = FDiv(box.accum, F(box.weight))

\* the vertical pass of a window of size 1 over a column of length 3, after
\* earlier columns were written back: the write at position 1 holds the one
\* lit pixel of the input
C20_Witness ==
    /\ Written
    /\ box.pc = "vpass" /\ box.i >= 1
    /\ windowSize = 1 /\ innerSize = 3
    /\ WrittenAt = 1
    /\ box.accum = F(1) /\ box.weight = 1

-----------------------------------------------------------------------------
(***************************************************************************)
(* Claims about getDepthFromHazyImage.                                     *)
(***************************************************************************)
\* the depth map as it is handed to normalise
PreNormalised == minFilter(dep.tmp, dep.tmp, dep.kernelSize)

Values(img) == {img.data[k] : k \in 1 .. Len(img.data)}

\* the least and the greatest of a non-empty set of finite floats
Least(S) == CHOOSE m \in S : \A v \in S : FLe(m, v)

Greatest(S) == CHOOSE m \in S : \A v \in S : FLe(v, m)

\* C2: when the min-filtered depth map takes at least two distinct values,
\* every pixel of the returned map lies in [0, 1], the pixels that held the
\* global minimum are exactly 0 and those that held the global maximum are
\* exactly 1.
C2_NormalisedDepthRange ==
    (dep.pc = "done" /\ Cardinality(Values(PreNormalised)) >= 2) =>
        LET pre == PreNormalised
            lo == Least(Values(pre))
            hi == Greatest(Values(pre))
        IN  \A k \in 1 .. Len(dep.result.data) :
                /\ FLe(F(0), dep.result.data[k])
                /\ FLe(dep.result.data[k], F(1))
                /\ pre.data[k] = lo => dep.result.data[k] = F(0)
                /\ pre.data[k] = hi => dep.result.data[k] = F(1)

\* a returned map that holds 0, 1 and a value strictly between them
C2_Witness ==
    /\ dep.pc = "done"
    /\ F(0) \in Values(dep.result)
    /\ F(1) \in Values(dep.result)
    /\ \E v \in Values(dep.result) : FLt(F(0), v) /\ FLt(v, F(1))

\* C3: a depth map that is uniform before normalisation is a fatal
\* degenerate input: getDepthFromHazyImage returns no depth map for it.
\* (The function has no failing exit; "done" is its only return.)
C3_Original ==
    dep.pc = "done" => Cardinality(Values(PreNormalised)) >= 2

\* C4: before normalisation the value at every pixel c is the minimum of
\* the clamped depth over exactly the in-bounds pixels of the k x k window
\* centred on c (stated for odd k, where the centred window is
\* [c - k/2, c + k/2] in both directions).
C4_Original ==
    (dep.pc = "filtered" /\ dep.kernelSize % 2 = 1) =>
        \A c \in Coords(dep.tmp.width, dep.tmp.height) :
            At(dep.result, c) =
                Least({At(dep.tmp, d) :
                          d \in {e \in Coords(dep.tmp.width, dep.tmp.height) :
                                    /\ Abs(e[1] - c[1]) <= dep.kernelSize \div 2
                                    /\ Abs(e[2] - c[2]) <= dep.kernelSize \div 2}})

-----------------------------------------------------------------------------
(***************************************************************************)
(* Claims about removeHaze.                                                *)
(***************************************************************************)
PixelsOf(img) == {img.data[k] : k \in 1 .. Len(img.data)}

\* C5, as stated: once the background light is chosen, the candidates it
\* was chosen from are at least max(1, N / 1000) of the N pixels and A is
\* the colour of a pixel of the input.
C5_Original ==
    hz.pc \in {"airlight", "done"} =>
        /\ Len(hz.coords) >= Max(1, Len(hz.in.data) \div TopFraction)
        /\ hz.A \in PixelsOf(hz.in)

TenNinths(p, A) ==
    <<FAdd(A[1], FMul(FSub(p[1], A[1]), <<10, 9>>)),
      FAdd(A[2], FMul(FSub(p[2], A[2]), <<10, 9>>)),
      FAdd(A[3], FMul(FSub(p[3], A[3]), <<10, 9>>))>>

\* C6: the transmission of every pixel lies in [0.1, 0.9], whatever the
\* depth (NaN and +Inf included) and beta; with beta = 0 it is 0.9 at every
\* pixel and every output pixel is A + (I - A) / 0.9 per channel, with no
\* clamp to [0, 1] applied to it.
C6_TransmissionClamped ==
    hz.pc = "done" =>
        \A k \in 1 .. Len(hz.out.data) :
            /\ FLe(<<1, 10>>, hz.t[k]) /\ FLe(hz.t[k], <<9, 10>>)
            /\ hz.beta = F(0) =>
                  /\ hz.t[k] = <<9, 10>>
                  /\ hz.out.data[k] = TenNinths(hz.in.data[k], hz.A)

\* a white pixel over a black background light comes out as 10/9 > 1 with
\* beta = 0; another run uses the lower clamp 0.1
C6_Witness ==
    /\ hz.pc = "done"
    /\ hz.beta = F(0)
    /\ hz.A = Black
    /\ \E k \in 1 .. Len(hz.out.data) :
          /\ hz.in.data[k] = White
          /\ hz.out.data[k] = <<(<<10, 9>>), (<<10, 9>>), (<<10, 9>>)>>
          /\ FLt(F(1), hz.out.data[k][1])

-----------------------------------------------------------------------------
(***************************************************************************)
(* Claims about the guided filter.                                         *)
(***************************************************************************)
\* C7, as stated: guidedFilter returns an image only if the determinant of
\* the regularised covariance matrix is non-zero at every pixel, and never
\* an image with a NaN or infinite value.
C7_Original ==
    gf.pc = "done" =>
        /\ \A k \in 1 .. Len(gf.covDet.data) : gf.covDet.data[k] # F(0)
        /\ \A k \in 1 .. Len(gf.out.data) : IsFinite(gf.out.data[k])

-----------------------------------------------------------------------------
(***************************************************************************)
(* Claims about BaseImage.                                                 *)
(***************************************************************************)
SizeMatches(img) == Len(img.data) = img.width * img.height

\* C8, as stated: whichever constructor built the image, data().size() is
\* width * height and pixel (x, y), at index y * width + x, holds the value
\* supplied for it; the size still matches after every arithmetic operator,
\* in the operand and in the image returned.
C8_Original ==
    /\ SizeMatches(im.l)
    /\ SizeMatches(im.last.res)
    /\ im.n = 0 /\ im.ctor # 1 =>
          \A c \in Coords(im.l.width, im.l.height) :
             im.l.data[c[2] * im.l.width + c[1] + 1] = im.supplied[c[2] * im.l.width + c[1] + 1]

\* C9: on an image of width >= 1 and height >= 1, operator[] at any
\* coordinate, negative or past the width or height, reads inside the
\* vector: the index is clamp(y, 0, height - 1) * width +
\* clamp(x, 0, width - 1), it lies in [0, width * height) and the element
\* returned is the one stored there.
C9_AccessIsClamped ==
    im.pc \in {"evaluated", "crashed"} /\ im.last.kind = "access"
    /\ im.l.width >= 1 /\ im.l.height >= 1 =>
        LET x == Min(Max(im.last.coord[1], 0), im.l.width - 1)
            y == Min(Max(im.last.coord[2], 0), im.l.height - 1)
        IN  /\ im.pc = "evaluated"
            /\ im.last.status = "ok"
            /\ im.last.index = y * im.l.width + x
            /\ 0 <= im.last.index /\ im.last.index < im.l.width * im.l.height
            /\ im.last.value = im.l.data[im.last.index + 1]

\* a read at (-1, height) of a 2 x 2 image built from a pointer: index 2
C9_Witness ==
    /\ im.pc = "evaluated" /\ im.last.kind = "access" /\ im.last.status = "ok"
    /\ im.ctor = 2 /\ im.l.width = 2 /\ im.l.height = 2
    /\ im.last.coord = <<-1, 2>>
    /\ im.last.index = 2

\* C10: an operator between two images that differ in width or in height
\* ends with an ImageError, returns no image and leaves the left operand as
\* it was, for +, -, *, / and for +=, -=, *=, /=.
C10_MismatchThrowsFirst ==
    [][im.pc = "ready" /\ im'.last.kind \in {"binary", "assign"}
       /\ (im.l.width # im'.last.r.width \/ im.l.height # im'.last.r.height) =>
           /\ im'.pc = "evaluated"
           /\ im'.last.status = "ImageError"
           /\ im'.last.res = NoImage
           /\ im'.l = im.l]_vars

\* l *= r failed on operands of the same width and different heights
C10_Witness ==
    /\ im.pc = "evaluated" /\ im.last.kind = "assign" /\ im.last.op = "mul"
    /\ im.last.status = "ImageError"
    /\ im.l.width = 2 /\ im.last.r.width = 2
    /\ im.l.height = 1 /\ im.last.r.height = 2
    /\ im.l.data = Ramp(2)

-----------------------------------------------------------------------------
(***************************************************************************)
(* Claims about views.                                                     *)
(***************************************************************************)
\* the rectangle [x0, x1) x [y0, y1) of a view or of a request
Left(v) == v.offset[1]

Right(v) == v.offset[1] + v.width

Top(v) == v.offset[2]

Bottom(v) == v.offset[2] + v.height

Within(v, outer) ==
    /\ Left(outer) <= Left(v) /\ Right(v) <= Right(outer)
    /\ Top(outer) <= Top(v) /\ Bottom(v) <= Bottom(outer)

\* the request has a point in common with the image
Overlaps(req, image) ==
    /\ req.width >= 1 /\ req.height >= 1
    /\ Left(req) < image.width /\ Right(req) > 0
    /\ Top(req) < image.height /\ Bottom(req) > 0

\* C11, as stated: the view getView returns for a rectangle that overlaps
\* the image, negative offsets included, is the intersection of the
\* rectangle with [0, width) x [0, height).
C11_Original ==
    vw.kind = "getView" /\ Overlaps(vw.req, vw.image) =>
        /\ Left(vw.view) = Max(0, Left(vw.req))
        /\ Right(vw.view) = Min(vw.image.width, Right(vw.req))
        /\ Top(vw.view) = Max(0, Top(vw.req))
        /\ Bottom(vw.view) = Min(vw.image.height, Bottom(vw.req))

\* C12, as stated: the view getView returns for a rectangle with no point in
\* the image has zero width or zero height, and a range-for over it gives
\* its body no coordinate and does not stop at a division by zero.
C12_Original ==
    (/\ vw.kind = "getView"
     /\ vw.req.width >= 1 /\ vw.req.height >= 1
     /\ ~Overlaps(vw.req, vw.image)) =>
        /\ vw.view.width = 0 \/ vw.view.height = 0
        /\ vw.visited = <<>>
        /\ vw.pc # "crashed"

\* C13, as stated: a view derived with subView or centredSubView from a
\* view inside the image is inside the image and inside its parent, and so
\* is every coordinate a range-for over it yields.
C13_Original ==
    (/\ vw.kind \in {"subView", "centredSubView"}
     /\ Within(vw.parent, getView(vw.image))) =>
        /\ Within(vw.view, getView(vw.image))
        /\ Within(vw.view, vw.parent)
        /\ \A k \in 1 .. Len(vw.visited) :
              /\ Left(vw.parent) <= vw.visited[k][1] /\ vw.visited[k][1] < Right(vw.parent)
              /\ Top(vw.parent) <= vw.visited[k][2] /\ vw.visited[k][2] < Bottom(vw.parent)

-----------------------------------------------------------------------------
(***************************************************************************)
(* Claims about normalise.                                                 *)
(***************************************************************************)
\* C16, as stated: normalise of an image with at least two distinct
\* values, of whatever sign, leaves 0 at every pixel that held the lowest
\* value and 1 at every pixel that held the highest.
C16_Original ==
    (nm.pc = "done" /\ Cardinality(Values(nm.in)) >= 2) =>
        \A k \in 1 .. Len(nm.in.data) :
            /\ nm.in.data[k] = Least(Values(nm.in)) => nm.img.data[k] = F(0)
            /\ nm.in.data[k] = Greatest(Values(nm.in)) => nm.img.data[k] = F(1)

-----------------------------------------------------------------------------
(***************************************************************************)
(* Claims about splitChannels and joinChannels.                            *)
(***************************************************************************)
\* C17: joinChannels of the three images splitChannels returns for an RGB
\* image has the width and the height of that image and holds, at every
\* coordinate, the pixel the image holds there.
C17_JoinInvertsSplit ==
    ch.pc = "joined" =>
        /\ ch.out.width = ch.image.width
        /\ ch.out.height = ch.image.height
        /\ \A c \in Coords(ch.image.width, ch.image.height) :
              At(ch.out, c) = At(ch.image, c)

\* a 2 x 2 image with red on the right of the first row and azure on the
\* left of the second, split into channels that differ and joined again
C17_Witness ==
    /\ ch.pc = "joined"
    /\ ch.image.width = 2 /\ ch.image.height = 2
    /\ At(ch.image, <<1, 0>>) = Red /\ At(ch.image, <<0, 1>>) = Azure
    /\ At(ch.channels[1], <<1, 0>>) = F(1) /\ At(ch.channels[3], <<0, 1>>) = F(1)
    /\ At(ch.out, <<1, 0>>) = Red /\ At(ch.out, <<0, 1>>) = Azure

-----------------------------------------------------------------------------
(***************************************************************************)
(* Claims about the driver and about DevIL errors.                         *)
(***************************************************************************)
\* the files of a set as the set of all outputs the run was asked for
AllOutputs ==
    {Outputs(io.saveIntermediates)[k] : k \in 1 .. Len(Outputs(io.saveIntermediates))}

\* C18, as stated: a run of dehaze that fails, at whatever step, ends with
\* no output file written; a run ends with all of its output files or none.
C18_Original ==
    /\ io.pc = "failed" => io.files = {}
    /\ io.pc \in {"failed", "done"} => io.files \in {{}, AllOutputs}

\* C19, as stated: the ImageError a load or a save ends with after DevIL
\* recorded errors carries the string of every one of them, so its message
\* is not empty even for a single error; and when checkIlError has thrown no
\* error is left in DevIL's queue.
C19_Original ==
    io.pc = "failed" =>
        /\ io.thrown.message # <<>>
        /\ \A k \in 1 .. Len(io.thrown.reported) :
              \E j \in 1 .. Len(io.thrown.message) :
                 io.thrown.message[j] = iluErrorString(io.thrown.reported[k])
        /\ io.thrown.by = "checkIlError" => io.queue = <<>>

-----------------------------------------------------------------------------
(***************************************************************************)
(* Claims about the iterator of a view.                                    *)
(***************************************************************************)
\* the k-th coordinate of the view in row-major order, x fastest
RowMajor(view, k) ==
    <<view.offset[1] + ((k - 1) % view.width),
      view.offset[2] + ((k - 1) \div view.width)>>

\* what a walk over a view of width >= 1 has given its body is the start of
\* the row-major sequence, one coordinate per operator++; it ends after
\* width * height of them, and a second walk repeats the first
WalkIsRowMajor ==
    vw.view.width >= 1 =>
        /\ Len(vw.visited) <= vw.view.width * vw.view.height
        /\ \A k \in 1 .. Len(vw.visited) : vw.visited[k] = RowMajor(vw.view, k)
        /\ vw.pc \in {"iterating", "done"} => vw.incs = Len(vw.visited)
        /\ vw.pc = "done" => vw.incs = vw.view.width * vw.view.height
        /\ vw.pc # "crashed"
        /\ (vw.round = 2 /\ vw.pc = "done") => vw.visited = vw.first

\* C21: a range-for over a view of width w >= 1 and height h >= 0 reaches
\* end() after exactly w * h calls of operator++, having given its body
\* offset + (x, y) for every 0 <= x < w, 0 <= y < h once, in row-major
\* order; a second range-for over the view gives the same sequence.
C21_IterationTerminatesRowMajor ==
    /\ []WalkIsRowMajor
    /\ (vw.pc = "iterating" /\ vw.view.width >= 1) ~> (vw.pc = "done")

\* the second walk over a 2 x 3 view at offset (1, 0) has ended after six
\* increments, and an empty view of height 0 ends at once
C21_Witness ==
    /\ vw.pc = "done" /\ vw.round = 2
    /\ vw.view = [offset |-> <<1, 0>>, width |-> 2, height |-> 3]
    /\ vw.incs = 6
    /\ vw.visited = <<(<<1, 0>>), (<<2, 0>>), (<<1, 1>>), (<<2, 1>>), (<<1, 2>>), (<<2, 2>>)>>
    /\ vw.first = vw.visited

-----------------------------------------------------------------------------
(***************************************************************************)
(* Claims about the background light.                                      *)
(***************************************************************************)
\* the candidate coordinates: the first nHighest of coords
Candidates == {hz.coords[k] : k \in 1 .. Len(hz.coords)}

\* the candidates are floor(N / 1000) coordinates, each at least as deep as
\* every other pixel, and once A is chosen its luminance is the greatest
\* among the candidates' pixels, and A is one of them if one is brighter
\* than black
AirlightIsBrightestOfDeepest ==
    LET all == Coords(hz.depth.width, hz.depth.height)
        lums == {getLuminance(At(hz.in, c)) : c \in Candidates}
    IN  /\ Len(hz.coords) = Len(hz.depth.data) \div TopFraction
        /\ Cardinality(Candidates) = Len(hz.coords)
        /\ \A c \in Candidates :
              \A d \in all \ Candidates : FLe(At(hz.depth, d), At(hz.depth, c))
        /\ hz.pc = "airlight" =>
              /\ \A l \in lums : FLe(l, getLuminance(hz.A))
              /\ getLuminance(hz.A) \in lums
              /\ (\E l \in lums : FLt(F(0), l)) =>
                    hz.A \in {At(hz.in, c) : c \in Candidates}

\* C22, as stated: for every image of N >= 1000 pixels and every depth map
\* of its size, the floor(N / 1000) candidates are at least as deep as every
\* other pixel and the luminance of A is the greatest luminance among the
\* candidates' pixels.
C22_Original ==
    (hz.pc \in {"selected", "airlight"} /\ Len(hz.in.data) >= TopFraction) =>
        AirlightIsBrightestOfDeepest

\* C22 (amended): the same, for depth maps that hold no NaN and images whose
\* candidate pixels have a luminance of 0 or more (channels in [0, 1]).
C22_AirlightOnOrderedDepth ==
    (/\ hz.pc \in {"selected", "airlight"}
     /\ Len(hz.in.data) >= TopFraction
     /\ \A k \in 1 .. Len(hz.depth.data) : ~IsNaN(hz.depth.data[k])
     /\ \A c \in Candidates : FLe(F(0), getLuminance(At(hz.in, c)))) =>
        AirlightIsBrightestOfDeepest

\* two candidates of 2000 pixels, the white one met before the red one: A
\* stays white
C22_Witness ==
    /\ hz.pc = "airlight"
    /\ Len(hz.in.data) = 2 * TopFraction
    /\ hz.coords = <<(<<2 * TopFraction - 1, 0>>), (<<0, 0>>)>>
    /\ At(hz.in, <<0, 0>>) = Red /\ At(hz.in, <<2 * TopFraction - 1, 0>>) = White
    /\ hz.A = White


-----------------------------------------------------------------------------
(***************************************************************************)
(* Claims about the image files read and written from several threads.     *)
(***************************************************************************)
InsideIl == {t \in Threads : io.th[t].inIl}

\* thread t is at the lock_guard of initIl or of checkIlError
AtNestedLock(t) == Instr(t).k = "lock" /\ Len(io.th[t].stack) >= 2

\* C23: in every interleaving of threads that call loadRgbImage,
\* loadGreyImage, saveRgbImage and saveGreyImage, at most one thread is
\* inside a DevIL function at any time, and that thread owns ilMutex; a
\* thread that reaches the lock_guard of initIl or of checkIlError already
\* owns ilMutex and can take it again at once; and as long as no exception
\* has left initIl, ilInit has been called at most once.
C23_DevILSerialised ==
    /\ Cardinality(InsideIl) <= 1
    /\ \A t \in InsideIl : io.owner = t /\ io.count >= 1
    /\ \A t \in Threads :
          AtNestedLock(t) => io.owner = t /\ canLock(io.owner, t)
    /\ ~io.initFailed => io.ilInits <= 1

\* thread 1 holds ilMutex three times, inside ilGetError in checkIlError
\* in initIl in loadRgbImage, after the one call of ilInit, while thread 2
\* waits at the lock_guard of the function it has called
C23_Witness ==
    /\ io.th[1].inIl /\ Len(io.th[1].stack) = 3
    /\ io.th[1].stack[1].fn = "loadRgbImage"
    /\ io.th[1].stack[2].fn = "initIl"
    /\ Instr(1).f = "ilGetError"
    /\ io.owner = 1 /\ io.count = 3 /\ io.ilInits = 1 /\ ~io.ilInitialised
    /\ Len(io.th[2].stack) = 1 /\ Instr(2).k = "lock"
    /\ ~canLock(io.owner, 2)

=============================================================================
